---- MODULE Spec2Model ----
(***************************************************************************)
(* The DX-Ball game of src/src/App.tsx: the reducer gameReducer (one       *)
(* operator per case of its switch), the factories it uses, and the        *)
(* GamePage component that drives it (timers, effects, animation frames).  *)
(*                                                                         *)
(* Numbers.  The program computes in IEEE doubles.  The model keeps every  *)
(* length, position and speed as an integer count of 1/Unit pixels, and    *)
(* every value of Math.random() as an integer count of 1/Unit.  Products   *)
(* with 1.5, 0.6, 0.1, 0.5 and 0.01 are exact whenever the result is a     *)
(* multiple of 1/Unit and are truncated towards zero otherwise.            *)
(***************************************************************************)
EXTENDS Integers, Sequences, FiniteSets, TLC

\* ------------------------------------------------------------------------
\* Bounds of the model (not program constants)
\* ------------------------------------------------------------------------
MaxNow == 1
MaxLevel == 1
MaxBalls == 2
MaxPowerUps == 1
MaxEffects == 2
MaxTimers == 2
MaxScore == 20
NSeeds == 1
MaxHandles == 6
MaxFrames == 3
MaxLevels == 2
MaxTicks == 132
MaxDropTick == 1
MaxStack == 12
MaxWallTicks == 13
MaxThruTicks == 75
MaxBuildLevel == 6
MaxLoopFrames == 5

\* ------------------------------------------------------------------------
\* GAME CONSTANTS (src/src/App.tsx:68-90), in pixels / frames / milliseconds
\* ------------------------------------------------------------------------
CANVAS_WIDTH == 800
CANVAS_HEIGHT == 600
PADDLE_INITIAL_WIDTH == 120
PADDLE_HEIGHT == 20
PADDLE_Y_OFFSET == 30
BALL_RADIUS == 10
INITIAL_LIVES == 3
BRICK_ROW_COUNT == 7
BRICK_COLUMN_COUNT == 10
BRICK_WIDTH == 75
BRICK_HEIGHT == 20
BRICK_PADDING == 10
BRICK_OFFSET_TOP == 80
BRICK_OFFSET_LEFT == 30
POWERUP_SPEED == 2
POWERUP_WIDTH == 50
POWERUP_HEIGHT == 25
POWERUP_DURATION == 10000
STAR_COUNT == 150
PARTICLE_LIFE == 40
BRICK_POINTS == 10
SHATTER_COUNT == 15

BRICK_COLORS == <<"#3498DB", "#1ABC9C", "#F1C40F", "#9B59B6", "#E74C3C">>

\* ------------------------------------------------------------------------
\* Fixed-point arithmetic
\* ------------------------------------------------------------------------
Unit == 10 * 100

Px(n) == n * Unit

TruncDiv(a, b) == IF a >= 0 THEN a \div b ELSE -((-a) \div b)

\* v * 1.5, v * 0.6, v * 0.1, v / 2
Times15(v) == TruncDiv(v * 3, 2)
Times06(v) == TruncDiv(v * 3, 5)
Times01(v) == TruncDiv(v, 10)
Half(v) == TruncDiv(v, 2)

\* POWERUP_CHANCE = 0.3, as a count of 1/Unit
POWERUP_CHANCE == (3 * Unit) \div 10

\* Math.sign
Sign(v) == IF v > 0 THEN 1 ELSE IF v < 0 THEN -1 ELSE 0

Min(a, b) == IF a < b THEN a ELSE b
Max(a, b) == IF a > b THEN a ELSE b

\* 4 + level * 0.5
BaseSpeed(level) == Px(4) + level * Half(Unit)

\* ------------------------------------------------------------------------
\* types.ts
\* ------------------------------------------------------------------------
GameStatus == {"MENU", "PLAYING", "LEVEL_COMPLETE", "GAME_OVER"}

\* Object.keys(POWERUP_CONFIG), in insertion order
PowerUpTypes ==
  <<"EXPAND_PADDLE", "SHRINK_PADDLE", "FAST_BALL", "SLOW_BALL",
    "SPLIT_BALL", "GRAB_PADDLE", "KILL_PADDLE", "THRU_BRICK">>

PowerUpType == {PowerUpTypes[i] : i \in 1..Len(PowerUpTypes)}

TimedTypes == {"EXPAND_PADDLE", "SHRINK_PADDLE", "FAST_BALL", "SLOW_BALL", "THRU_BRICK"}

POWERUP_CONFIG ==
  [t \in PowerUpType |->
     CASE t = "EXPAND_PADDLE" -> [category |-> "POSITIVE", symbol |-> "E"]
       [] t = "SHRINK_PADDLE" -> [category |-> "NEGATIVE", symbol |-> "<"]
       [] t = "FAST_BALL"     -> [category |-> "NEGATIVE", symbol |-> "F"]
       [] t = "SLOW_BALL"     -> [category |-> "POSITIVE", symbol |-> "S"]
       [] t = "SPLIT_BALL"    -> [category |-> "POSITIVE", symbol |-> "+"]
       [] t = "GRAB_PADDLE"   -> [category |-> "POSITIVE", symbol |-> "G"]
       [] t = "KILL_PADDLE"   -> [category |-> "NEGATIVE", symbol |-> "X"]
       [] OTHER               -> [category |-> "POSITIVE", symbol |-> "T"]]

\* ------------------------------------------------------------------------
\* The environment of one reducer call
\* ------------------------------------------------------------------------
\* An environment e is a record
\*   now    : the value of Date.now() during the call
\*   seed   : the random stream the cosmetic draws (particles, stars) read
\*   chance : the draw compared with POWERUP_CHANCE in BRICK_HIT
\*   pick   : the draw that selects the type in SPAWN_POWERUP
\* A world w is what a call touches outside the state it returns:
\*   timers : the browser's pending timers, a set of [id, cb] (cb = "noop"
\*            or the effect type the callback dispatches
\*            DEACTIVATE_POWERUP for)
\*   next   : the handle the next setTimeout returns
\*   arrays : how many times the call put a new array in activeEffects
\*            (zero: the returned state holds the array of the input state)

\* The i-th cosmetic draw of the random stream `seed`: a value of
\* Math.random(), in 0 .. Unit-1.
Random(seed, i) == ((seed + 1) * (i * 37 + 11) * 7) % Unit

setTimeout(w, cb) ==
  [w EXCEPT !.timers = w.timers \cup {[id |-> w.next, cb |-> cb]}, !.next = w.next + 1]

clearTimeout(w, id) ==
  [w EXCEPT !.timers = {t \in w.timers : t.id # id}]

\* effects.forEach(effect => clearTimeout(effect.timeoutId))
ClearEffectTimers_None(w, effects) == w

ClearEffectTimers(w, effects) ==
  [w EXCEPT !.timers =
     {t \in w.timers : \A i \in 1..Len(effects) : effects[i].timeoutId # t.id}]

\* activeEffects: [] and activeEffects.filter(...) make a new array
NewArray(w) == [w EXCEPT !.arrays = w.arrays + 1]

\* ------------------------------------------------------------------------
\* Factories
\* ------------------------------------------------------------------------
BrickRows_Uncapped(level) == BRICK_ROW_COUNT + (level - 1)

BrickRows(level) == BRICK_ROW_COUNT + Min(level - 1, 3)

createBricksForLevel(level) ==
  [k \in 1..(BrickRows(level) * BRICK_COLUMN_COUNT) |->
     LET r == (k - 1) \div BRICK_COLUMN_COUNT
         c == (k - 1) % BRICK_COLUMN_COUNT
     IN  [id |-> <<level, r, c>>,
          x |-> Px(c * (BRICK_WIDTH + BRICK_PADDING) + BRICK_OFFSET_LEFT),
          y |-> Px(r * (BRICK_HEIGHT + BRICK_PADDING) + BRICK_OFFSET_TOP),
          width |-> Px(BRICK_WIDTH),
          height |-> Px(BRICK_HEIGHT),
          color |-> BRICK_COLORS[((r + level) % Len(BRICK_COLORS)) + 1],
          active |-> TRUE]]

createInitialBall(level, now) ==
  [id |-> <<now>>,
   x |-> Half(Px(CANVAS_WIDTH)),
   y |-> Px(CANVAS_HEIGHT - PADDLE_Y_OFFSET - PADDLE_HEIGHT - BALL_RADIUS),
   radius |-> Px(BALL_RADIUS),
   dx |-> BaseSpeed(level),
   dy |-> -BaseSpeed(level),
   isThru |-> FALSE]

createStars(seed) ==
  [i \in 1..STAR_COUNT |->
     [x |-> Random(seed, 5 * i) * CANVAS_WIDTH,
      y |-> Random(seed, 5 * i + 1) * CANVAS_HEIGHT,
      radius |-> Times15(Random(seed, 5 * i + 2)),
      alpha |-> Half(Random(seed, 5 * i + 3)) + 2 * (Unit \div 10),
      dAlpha |-> TruncDiv(Random(seed, 5 * i + 4) - Half(Unit), 100)]]

InitialPaddle ==
  [x |-> Half(Px(CANVAS_WIDTH - PADDLE_INITIAL_WIDTH)),
   width |-> Px(PADDLE_INITIAL_WIDTH),
   height |-> Px(PADDLE_HEIGHT),
   hasGrab |-> FALSE]

getInitialState(seed) ==
  [status |-> "MENU",
   balls |-> <<>>,
   paddle |-> InitialPaddle,
   bricks |-> <<>>,
   powerUps |-> <<>>,
   activeEffects |-> <<>>,
   particles |-> <<>>,
   stars |-> createStars(seed),
   score |-> 0,
   lives |-> INITIAL_LIVES,
   level |-> 1]

\* Returns [st, w]: the clean state and the timer table after the clearTimeout
\* calls.  The paddle is the one of a fresh initial state (centred, base width).
clearAllEffects(s, w) ==
  [st |-> [s EXCEPT !.paddle = InitialPaddle,
                    !.balls = [i \in 1..Len(s.balls) |->
                                 [s.balls[i] EXCEPT !.isThru = FALSE, !.radius = Px(BALL_RADIUS)]],
                    !.powerUps = <<>>,
                    !.activeEffects = <<>>,
                    !.particles = <<>>],
   w |-> NewArray(ClearEffectTimers(w, s.activeEffects))]

\* ------------------------------------------------------------------------
\* gameReducer, one operator per case.  Each returns [st, w]: the state the
\* case returns and the timer table after its setTimeout/clearTimeout calls.
\* ------------------------------------------------------------------------
IsStuck(ball) == ball.dx = 0 /\ ball.dy = 0

StuckBall(level, now) ==
  [createInitialBall(level, now) EXCEPT !.dx = 0, !.dy = 0]

START_LEVEL_SameLevel(s, w, e) ==
  LET isNewGame == s.status = "MENU" \/ s.status = "GAME_OVER"
      cleared == clearAllEffects(IF isNewGame THEN getInitialState(e.seed) ELSE s, w)
      resetState == cleared.st
      currentLevel == IF isNewGame THEN 1 ELSE s.level
  IN  [st |-> [resetState EXCEPT
                 !.level = currentLevel,
                 !.status = "PLAYING",
                 !.bricks = createBricksForLevel(currentLevel),
                 !.balls = <<StuckBall(currentLevel, e.now)>>,
                 !.paddle = [resetState.paddle EXCEPT
                               !.x = Half(Px(CANVAS_WIDTH - PADDLE_INITIAL_WIDTH)),
                               !.width = Px(PADDLE_INITIAL_WIDTH)]],
       w |-> cleared.w]

START_LEVEL_KeepScore(s, w, e) ==
  LET isNewGame == s.status = "MENU" \/ s.status = "GAME_OVER"
      cleared == clearAllEffects(IF isNewGame THEN getInitialState(e.seed) ELSE s, w)
      resetState == cleared.st
      currentLevel == IF isNewGame THEN 1 ELSE s.level + 1
  IN  [st |-> [resetState EXCEPT
                 !.level = currentLevel,
                 !.score = s.score,
                 !.status = "PLAYING",
                 !.bricks = createBricksForLevel(currentLevel),
                 !.balls = <<StuckBall(currentLevel, e.now)>>,
                 !.paddle = [resetState.paddle EXCEPT
                               !.x = Half(Px(CANVAS_WIDTH - PADDLE_INITIAL_WIDTH)),
                               !.width = Px(PADDLE_INITIAL_WIDTH)]],
       w |-> cleared.w]

START_LEVEL_KeepBricks(s, w, e) ==
  LET isNewGame == s.status = "MENU" \/ s.status = "GAME_OVER"
      cleared == clearAllEffects(IF isNewGame THEN getInitialState(e.seed) ELSE s, w)
      resetState == cleared.st
      currentLevel == IF isNewGame THEN 1 ELSE s.level + 1
  IN  [st |-> [resetState EXCEPT
                 !.level = currentLevel,
                 !.status = "PLAYING",
                 !.bricks = IF isNewGame THEN createBricksForLevel(currentLevel)
                            ELSE s.bricks,
                 !.balls = <<StuckBall(currentLevel, e.now)>>,
                 !.paddle = [resetState.paddle EXCEPT
                               !.x = Half(Px(CANVAS_WIDTH - PADDLE_INITIAL_WIDTH)),
                               !.width = Px(PADDLE_INITIAL_WIDTH)]],
       w |-> cleared.w]

START_LEVEL(s, w, e) ==
  LET isNewGame == s.status = "MENU" \/ s.status = "GAME_OVER"
      cleared == clearAllEffects(IF isNewGame THEN getInitialState(e.seed) ELSE s, w)
      resetState == cleared.st
      currentLevel == IF isNewGame THEN 1 ELSE s.level + 1
  IN  [st |-> [resetState EXCEPT
                 !.level = currentLevel,
                 !.status = "PLAYING",
                 !.bricks = createBricksForLevel(currentLevel),
                 !.balls = <<StuckBall(currentLevel, e.now)>>,
                 !.paddle = [resetState.paddle EXCEPT
                               !.x = Half(Px(CANVAS_WIDTH - PADDLE_INITIAL_WIDTH)),
                               !.width = Px(PADDLE_INITIAL_WIDTH)]],
       w |-> cleared.w]

LAUNCH_BALL_AlwaysRelease(s, w) ==
  [st |-> [s EXCEPT
             !.balls = [i \in 1..Len(s.balls) |->
                          IF IsStuck(s.balls[i])
                          THEN [s.balls[i] EXCEPT !.dx = BaseSpeed(s.level),
                                                  !.dy = -BaseSpeed(s.level)]
                          ELSE s.balls[i]],
             !.paddle.hasGrab = FALSE],
   w |-> w]

LAUNCH_BALL_Straight(s, w) ==
  IF \E i \in 1..Len(s.balls) : IsStuck(s.balls[i])
  THEN [st |-> [s EXCEPT
                  !.balls = [i \in 1..Len(s.balls) |->
                               [s.balls[i] EXCEPT !.dx = BaseSpeed(s.level),
                                                  !.dy = -BaseSpeed(s.level)]],
                  !.paddle.hasGrab = FALSE],
        w |-> w]
  ELSE [st |-> s, w |-> w]

LAUNCH_BALL(s, w) ==
  IF \E i \in 1..Len(s.balls) : IsStuck(s.balls[i])
  THEN [st |-> [s EXCEPT
                  !.balls = [i \in 1..Len(s.balls) |->
                               IF IsStuck(s.balls[i])
                               THEN [s.balls[i] EXCEPT !.dx = BaseSpeed(s.level),
                                                       !.dy = -BaseSpeed(s.level)]
                               ELSE s.balls[i]],
                  !.paddle.hasGrab = FALSE],
        w |-> w]
  ELSE [st |-> s, w |-> w]

MOVE_PADDLE_DropsGrab(s, w, x) ==
  [st |-> [s EXCEPT
             !.balls = [i \in 1..Len(s.balls) |->
                          IF IsStuck(s.balls[i])
                          THEN [s.balls[i] EXCEPT !.x = x + Half(s.paddle.width)]
                          ELSE s.balls[i]],
             !.paddle = [x |-> x, width |-> s.paddle.width,
                         height |-> s.paddle.height, hasGrab |-> FALSE]],
   w |-> w]

MOVE_PADDLE_DragAll(s, w, x) ==
  [st |-> [s EXCEPT
             !.balls = [i \in 1..Len(s.balls) |->
                          [s.balls[i] EXCEPT !.x = x + Half(s.paddle.width)]],
             !.paddle.x = x],
   w |-> w]

MOVE_PADDLE(s, w, x) ==
  [st |-> [s EXCEPT
             !.balls = [i \in 1..Len(s.balls) |->
                          IF IsStuck(s.balls[i])
                          THEN [s.balls[i] EXCEPT !.x = x + Half(s.paddle.width)]
                          ELSE s.balls[i]],
             !.paddle.x = x],
   w |-> w]

LOSE_LIFE_NoBall(s, w, e) ==
  LET cleared == clearAllEffects(s, w)
      newState == cleared.st
      newLives == newState.lives - 1
  IN  IF newLives <= 0
      THEN [st |-> [newState EXCEPT !.lives = 0, !.status = "GAME_OVER"], w |-> cleared.w]
      ELSE [st |-> [newState EXCEPT !.lives = newLives, !.status = "PLAYING"],
            w |-> cleared.w]

LOSE_LIFE_KeepPaddle(s, w, e) ==
  LET cleared == clearAllEffects(s, w)
      newState == [cleared.st EXCEPT !.paddle = s.paddle]
      newLives == newState.lives - 1
  IN  IF newLives <= 0
      THEN [st |-> [newState EXCEPT !.lives = 0, !.status = "GAME_OVER"], w |-> cleared.w]
      ELSE [st |-> [newState EXCEPT !.lives = newLives,
                                    !.status = "PLAYING",
                                    !.balls = <<StuckBall(newState.level, e.now)>>],
            w |-> cleared.w]

LOSE_LIFE_OffByOne(s, w, e) ==
  LET cleared == clearAllEffects(s, w)
      newState == cleared.st
      newLives == newState.lives - 1
  IN  IF newLives < 0
      THEN [st |-> [newState EXCEPT !.lives = 0, !.status = "GAME_OVER"], w |-> cleared.w]
      ELSE [st |-> [newState EXCEPT !.lives = newLives,
                                    !.status = "PLAYING",
                                    !.balls = <<StuckBall(newState.level, e.now)>>],
            w |-> cleared.w]

LOSE_LIFE_NoPin(s, w, e) ==
  LET cleared == clearAllEffects(s, w)
      newState == cleared.st
      newLives == newState.lives - 1
  IN  IF newLives <= 0
      THEN [st |-> [newState EXCEPT !.lives = newLives, !.status = "GAME_OVER"],
            w |-> cleared.w]
      ELSE [st |-> [newState EXCEPT !.lives = newLives,
                                    !.status = "PLAYING",
                                    !.balls = <<StuckBall(newState.level, e.now)>>],
            w |-> cleared.w]

LOSE_LIFE_ScoreReset(s, w, e) ==
  LET cleared == clearAllEffects(s, w)
      newState == cleared.st
      newLives == newState.lives - 1
  IN  IF newLives <= 0
      THEN [st |-> [newState EXCEPT !.lives = 0, !.score = 0, !.status = "GAME_OVER"],
            w |-> cleared.w]
      ELSE [st |-> [newState EXCEPT !.lives = newLives,
                                    !.status = "PLAYING",
                                    !.balls = <<StuckBall(newState.level, e.now)>>],
            w |-> cleared.w]

LOSE_LIFE(s, w, e) ==
  LET cleared == clearAllEffects(s, w)
      newState == cleared.st
      newLives == newState.lives - 1
  IN  IF newLives <= 0
      THEN [st |-> [newState EXCEPT !.lives = 0, !.status = "GAME_OVER"], w |-> cleared.w]
      ELSE [st |-> [newState EXCEPT !.lives = newLives,
                                    !.status = "PLAYING",
                                    !.balls = <<StuckBall(newState.level, e.now)>>],
            w |-> cleared.w]

\* payload p = [x, y, color, count, speed]
SPAWN_PARTICLES_RandomLife(s, w, p, e) ==
  LET base == 4 * Len(s.particles)
      newParticles ==
        [k \in 1..p.count |->
           [id |-> <<e.now, Random(e.seed, base + 4 * k)>>,
            x |-> p.x,
            y |-> p.y,
            dx |-> TruncDiv((Random(e.seed, base + 4 * k + 1) - Half(Unit)) * p.speed * 2, Unit),
            dy |-> TruncDiv((Random(e.seed, base + 4 * k + 2) - Half(Unit)) * p.speed * 2, Unit),
            radius |-> Random(e.seed, base + 4 * k + 3) * 2 + Unit,
            color |-> p.color,
            life |-> 1 + TruncDiv(Random(e.seed, base + 4 * k + 3) * PARTICLE_LIFE, Unit)]]
  IN  [st |-> [s EXCEPT !.particles = s.particles \o newParticles], w |-> w]

SPAWN_PARTICLES(s, w, p, e) ==
  LET base == 4 * Len(s.particles)
      newParticles ==
        [k \in 1..p.count |->
           [id |-> <<e.now, Random(e.seed, base + 4 * k)>>,
            x |-> p.x,
            y |-> p.y,
            dx |-> TruncDiv((Random(e.seed, base + 4 * k + 1) - Half(Unit)) * p.speed * 2, Unit),
            dy |-> TruncDiv((Random(e.seed, base + 4 * k + 2) - Half(Unit)) * p.speed * 2, Unit),
            radius |-> Random(e.seed, base + 4 * k + 3) * 2 + Unit,
            color |-> p.color,
            life |-> PARTICLE_LIFE]]
  IN  [st |-> [s EXCEPT !.particles = s.particles \o newParticles], w |-> w]

SPAWN_POWERUP(s, w, x, y, e) ==
  LET type == PowerUpTypes[((e.pick * Len(PowerUpTypes)) \div Unit) + 1]
      newPowerUp ==
        [id |-> <<e.now>>,
         type |-> type,
         category |-> POWERUP_CONFIG[type].category,
         symbol |-> POWERUP_CONFIG[type].symbol,
         x |-> x + Half(Px(BRICK_WIDTH)) - Half(Px(POWERUP_WIDTH)),
         y |-> y,
         width |-> Px(POWERUP_WIDTH),
         height |-> Px(POWERUP_HEIGHT)]
  IN  [st |-> [s EXCEPT !.powerUps = Append(s.powerUps, newPowerUp)], w |-> w]

\* state.bricks.map(b => b.id === brickId ? { ...b, active: false } : b)
DeactivateBrick_SameColumn(bricks, brickId) ==
  [i \in 1..Len(bricks) |->
     IF bricks[i].id[3] = brickId[3] THEN [bricks[i] EXCEPT !.active = FALSE] ELSE bricks[i]]

DeactivateBrick(bricks, brickId) ==
  [i \in 1..Len(bricks) |->
     IF bricks[i].id = brickId THEN [bricks[i] EXCEPT !.active = FALSE] ELSE bricks[i]]

\* newBricks.every(b => !b.active)
AllBricksBroken_Some(newBricks) == \E i \in 1..Len(newBricks) : ~newBricks[i].active

AllBricksBroken(newBricks) == \A i \in 1..Len(newBricks) : ~newBricks[i].active

BRICK_HIT_AlwaysBounce(s, w, brickId, ballId, e) ==
  IF \A i \in 1..Len(s.bricks) : s.bricks[i].id # brickId
  THEN [st |-> s, w |-> w]
  ELSE
    LET brick == s.bricks[CHOOSE i \in 1..Len(s.bricks) :
                            /\ s.bricks[i].id = brickId
                            /\ \A j \in 1..(i - 1) : s.bricks[j].id # brickId]
        newBricks == DeactivateBrick(s.bricks, brickId)
        hit == [s EXCEPT
                  !.score = s.score + BRICK_POINTS,
                  !.bricks = newBricks,
                  !.balls = [i \in 1..Len(s.balls) |->
                               IF s.balls[i].id = ballId
                               THEN [s.balls[i] EXCEPT !.dy = -s.balls[i].dy]
                               ELSE s.balls[i]]]
        shattered == SPAWN_PARTICLES(hit, w,
                       [x |-> brick.x + Half(brick.width),
                        y |-> brick.y + Half(brick.height),
                        color |-> brick.color,
                        count |-> SHATTER_COUNT,
                        speed |-> Px(3)], e)
        dropped == IF e.chance < POWERUP_CHANCE
                   THEN SPAWN_POWERUP(shattered.st, shattered.w, brick.x, brick.y, e)
                   ELSE shattered
        allBricksBroken == AllBricksBroken(newBricks)
    IN  IF allBricksBroken
        THEN [st |-> [dropped.st EXCEPT !.status = "LEVEL_COMPLETE"], w |-> dropped.w]
        ELSE dropped

BRICK_HIT(s, w, brickId, ballId, e) ==
  IF \A i \in 1..Len(s.bricks) : s.bricks[i].id # brickId
  THEN [st |-> s, w |-> w]
  ELSE
    LET brick == s.bricks[CHOOSE i \in 1..Len(s.bricks) :
                            /\ s.bricks[i].id = brickId
                            /\ \A j \in 1..(i - 1) : s.bricks[j].id # brickId]
        newBricks == DeactivateBrick(s.bricks, brickId)
        hit == [s EXCEPT
                  !.score = s.score + BRICK_POINTS,
                  !.bricks = newBricks,
                  !.balls = [i \in 1..Len(s.balls) |->
                               IF s.balls[i].id = ballId /\ ~s.balls[i].isThru
                               THEN [s.balls[i] EXCEPT !.dy = -s.balls[i].dy]
                               ELSE s.balls[i]]]
        shattered == SPAWN_PARTICLES(hit, w,
                       [x |-> brick.x + Half(brick.width),
                        y |-> brick.y + Half(brick.height),
                        color |-> brick.color,
                        count |-> SHATTER_COUNT,
                        speed |-> Px(3)], e)
        dropped == IF e.chance < POWERUP_CHANCE
                   THEN SPAWN_POWERUP(shattered.st, shattered.w, brick.x, brick.y, e)
                   ELSE shattered
        allBricksBroken == AllBricksBroken(newBricks)
    IN  IF allBricksBroken
        THEN [st |-> [dropped.st EXCEPT !.status = "LEVEL_COMPLETE"], w |-> dropped.w]
        ELSE dropped

ACTIVATE_POWERUP_SplitFirst(s, w, powerUp, e) ==
  LET newState == [s EXCEPT !.powerUps =
                     SelectSeq(s.powerUps, LAMBDA q : q.id # powerUp.id)]
  IN  CASE powerUp.type = "KILL_PADDLE" -> LOSE_LIFE(newState, w, e)
        [] powerUp.type = "SPLIT_BALL" ->
             [st |-> [newState EXCEPT !.balls =
                        newState.balls \o
                        [i \in 1..Min(1, Len(newState.balls)) |->
                           [newState.balls[i] EXCEPT
                              !.id = newState.balls[i].id \o <<-1, e.now>>,
                              !.dx = -newState.balls[i].dx]]],
              w |-> w]
        [] powerUp.type = "GRAB_PADDLE" ->
             [st |-> [newState EXCEPT !.paddle.hasGrab = TRUE], w |-> w]
        [] OTHER ->
             LET timeoutId == w.next
                 pushed == [newState EXCEPT !.activeEffects =
                              Append(newState.activeEffects,
                                     [type |-> powerUp.type, timeoutId |-> timeoutId])]
             IN  [st |->
                    CASE powerUp.type = "EXPAND_PADDLE" ->
                           [pushed EXCEPT !.paddle.width = Times15(pushed.paddle.width)]
                      [] powerUp.type = "SHRINK_PADDLE" ->
                           [pushed EXCEPT !.paddle.width = Times06(pushed.paddle.width)]
                      [] powerUp.type = "FAST_BALL" ->
                           [pushed EXCEPT !.balls = [i \in 1..Len(pushed.balls) |->
                              [pushed.balls[i] EXCEPT !.dx = Times15(pushed.balls[i].dx),
                                                      !.dy = Times15(pushed.balls[i].dy)]]]
                      [] powerUp.type = "SLOW_BALL" ->
                           [pushed EXCEPT !.balls = [i \in 1..Len(pushed.balls) |->
                              [pushed.balls[i] EXCEPT !.dx = Times06(pushed.balls[i].dx),
                                                      !.dy = Times06(pushed.balls[i].dy)]]]
                      [] powerUp.type = "THRU_BRICK" ->
                           [pushed EXCEPT !.balls = [i \in 1..Len(pushed.balls) |->
                              [pushed.balls[i] EXCEPT !.isThru = TRUE]]]
                      [] OTHER -> pushed,
                  w |-> setTimeout(w, "noop")]

ACTIVATE_POWERUP_SplitPlain(s, w, powerUp, e) ==
  LET newState == [s EXCEPT !.powerUps =
                     SelectSeq(s.powerUps, LAMBDA q : q.id # powerUp.id)]
  IN  CASE powerUp.type = "KILL_PADDLE" -> LOSE_LIFE(newState, w, e)
        [] powerUp.type = "SPLIT_BALL" ->
             [st |-> [newState EXCEPT !.balls =
                        newState.balls \o
                        [i \in 1..Len(newState.balls) |->
                           [newState.balls[i] EXCEPT
                              !.id = newState.balls[i].id \o <<-1, e.now>>,
                              !.dx = -newState.balls[i].dx,
                              !.isThru = FALSE]]],
              w |-> w]
        [] powerUp.type = "GRAB_PADDLE" ->
             [st |-> [newState EXCEPT !.paddle.hasGrab = TRUE], w |-> w]
        [] OTHER ->
             LET timeoutId == w.next
                 pushed == [newState EXCEPT !.activeEffects =
                              Append(newState.activeEffects,
                                     [type |-> powerUp.type, timeoutId |-> timeoutId])]
             IN  [st |->
                    CASE powerUp.type = "EXPAND_PADDLE" ->
                           [pushed EXCEPT !.paddle.width = Times15(pushed.paddle.width)]
                      [] powerUp.type = "SHRINK_PADDLE" ->
                           [pushed EXCEPT !.paddle.width = Times06(pushed.paddle.width)]
                      [] powerUp.type = "FAST_BALL" ->
                           [pushed EXCEPT !.balls = [i \in 1..Len(pushed.balls) |->
                              [pushed.balls[i] EXCEPT !.dx = Times15(pushed.balls[i].dx),
                                                      !.dy = Times15(pushed.balls[i].dy)]]]
                      [] powerUp.type = "SLOW_BALL" ->
                           [pushed EXCEPT !.balls = [i \in 1..Len(pushed.balls) |->
                              [pushed.balls[i] EXCEPT !.dx = Times06(pushed.balls[i].dx),
                                                      !.dy = Times06(pushed.balls[i].dy)]]]
                      [] powerUp.type = "THRU_BRICK" ->
                           [pushed EXCEPT !.balls = [i \in 1..Len(pushed.balls) |->
                              [pushed.balls[i] EXCEPT !.isThru = TRUE]]]
                      [] OTHER -> pushed,
                  w |-> setTimeout(w, "noop")]

ACTIVATE_POWERUP(s, w, powerUp, e) ==
  LET newState == [s EXCEPT !.powerUps =
                     SelectSeq(s.powerUps, LAMBDA q : q.id # powerUp.id)]
  IN  CASE powerUp.type = "KILL_PADDLE" -> LOSE_LIFE(newState, w, e)
        [] powerUp.type = "SPLIT_BALL" ->
             [st |-> [newState EXCEPT !.balls =
                        newState.balls \o
                        [i \in 1..Len(newState.balls) |->
                           [newState.balls[i] EXCEPT
                              !.id = newState.balls[i].id \o <<-1, e.now>>,
                              !.dx = -newState.balls[i].dx]]],
              w |-> w]
        [] powerUp.type = "GRAB_PADDLE" ->
             [st |-> [newState EXCEPT !.paddle.hasGrab = TRUE], w |-> w]
        [] OTHER ->
             LET timeoutId == w.next
                 pushed == [newState EXCEPT !.activeEffects =
                              Append(newState.activeEffects,
                                     [type |-> powerUp.type, timeoutId |-> timeoutId])]
             IN  [st |->
                    CASE powerUp.type = "EXPAND_PADDLE" ->
                           [pushed EXCEPT !.paddle.width = Times15(pushed.paddle.width)]
                      [] powerUp.type = "SHRINK_PADDLE" ->
                           [pushed EXCEPT !.paddle.width = Times06(pushed.paddle.width)]
                      [] powerUp.type = "FAST_BALL" ->
                           [pushed EXCEPT !.balls = [i \in 1..Len(pushed.balls) |->
                              [pushed.balls[i] EXCEPT !.dx = Times15(pushed.balls[i].dx),
                                                      !.dy = Times15(pushed.balls[i].dy)]]]
                      [] powerUp.type = "SLOW_BALL" ->
                           [pushed EXCEPT !.balls = [i \in 1..Len(pushed.balls) |->
                              [pushed.balls[i] EXCEPT !.dx = Times06(pushed.balls[i].dx),
                                                      !.dy = Times06(pushed.balls[i].dy)]]]
                      [] powerUp.type = "THRU_BRICK" ->
                           [pushed EXCEPT !.balls = [i \in 1..Len(pushed.balls) |->
                              [pushed.balls[i] EXCEPT !.isThru = TRUE]]]
                      [] OTHER -> pushed,
                  w |-> setTimeout(w, "noop")]

DEACTIVATE_POWERUP_Unscale(s, w, effectType) ==
  LET newState == [s EXCEPT !.activeEffects =
                     SelectSeq(s.activeEffects, LAMBDA f : f.type # effectType)]
      unscale(v) == IF effectType = "FAST_BALL" THEN TruncDiv(v * 2, 3) ELSE TruncDiv(v * 5, 3)
  IN  [st |->
         CASE effectType \in {"EXPAND_PADDLE", "SHRINK_PADDLE"} ->
                [newState EXCEPT !.paddle.width = Px(PADDLE_INITIAL_WIDTH)]
           [] effectType \in {"FAST_BALL", "SLOW_BALL"} ->
                [newState EXCEPT !.balls = [i \in 1..Len(newState.balls) |->
                   [newState.balls[i] EXCEPT
                      !.dx = unscale(newState.balls[i].dx),
                      !.dy = unscale(newState.balls[i].dy)]]]
           [] effectType = "THRU_BRICK" ->
                [newState EXCEPT !.balls = [i \in 1..Len(newState.balls) |->
                   [newState.balls[i] EXCEPT !.isThru = FALSE]]]
           [] effectType = "GRAB_PADDLE" ->
                [newState EXCEPT !.paddle.hasGrab = FALSE]
           [] OTHER -> newState,
       w |-> NewArray(w)]

DEACTIVATE_POWERUP_Divide(s, w, effectType) ==
  LET newState == [s EXCEPT !.activeEffects =
                     SelectSeq(s.activeEffects, LAMBDA f : f.type # effectType)]
  IN  [st |->
         CASE effectType = "EXPAND_PADDLE" ->
                [newState EXCEPT !.paddle.width = TruncDiv(newState.paddle.width * 2, 3)]
           [] effectType = "SHRINK_PADDLE" ->
                [newState EXCEPT !.paddle.width = TruncDiv(newState.paddle.width * 5, 3)]
           [] effectType \in {"FAST_BALL", "SLOW_BALL"} ->
                [newState EXCEPT !.balls = [i \in 1..Len(newState.balls) |->
                   [newState.balls[i] EXCEPT
                      !.dx = Sign(newState.balls[i].dx) * BaseSpeed(s.level),
                      !.dy = Sign(newState.balls[i].dy) * BaseSpeed(s.level)]]]
           [] effectType = "THRU_BRICK" ->
                [newState EXCEPT !.balls = [i \in 1..Len(newState.balls) |->
                   [newState.balls[i] EXCEPT !.isThru = FALSE]]]
           [] effectType = "GRAB_PADDLE" ->
                [newState EXCEPT !.paddle.hasGrab = FALSE]
           [] OTHER -> newState,
       w |-> NewArray(w)]

DEACTIVATE_POWERUP(s, w, effectType) ==
  LET newState == [s EXCEPT !.activeEffects =
                     SelectSeq(s.activeEffects, LAMBDA f : f.type # effectType)]
  IN  [st |->
         CASE effectType \in {"EXPAND_PADDLE", "SHRINK_PADDLE"} ->
                [newState EXCEPT !.paddle.width = Px(PADDLE_INITIAL_WIDTH)]
           [] effectType \in {"FAST_BALL", "SLOW_BALL"} ->
                [newState EXCEPT !.balls = [i \in 1..Len(newState.balls) |->
                   [newState.balls[i] EXCEPT
                      !.dx = Sign(newState.balls[i].dx) * BaseSpeed(s.level),
                      !.dy = Sign(newState.balls[i].dy) * BaseSpeed(s.level)]]]
           [] effectType = "THRU_BRICK" ->
                [newState EXCEPT !.balls = [i \in 1..Len(newState.balls) |->
                   [newState.balls[i] EXCEPT !.isThru = FALSE]]]
           [] effectType = "GRAB_PADDLE" ->
                [newState EXCEPT !.paddle.hasGrab = FALSE]
           [] OTHER -> newState,
       w |-> NewArray(w)]

\* The input state object as its holder sees it after the call: the cases
\* build their result from a shallow copy ({...state}), so the writes to
\* newState.paddle.* and the push onto newState.activeEffects land in the
\* paddle object and the array the input state still refers to.
InputAfterActivate(s, w, powerUp, e) ==
  IF powerUp.type \in TimedTypes
  THEN LET out == ACTIVATE_POWERUP(s, w, powerUp, e).st
       IN  [s EXCEPT !.activeEffects = out.activeEffects, !.paddle = out.paddle]
  ELSE s

InputAfterDeactivate(s, w, effectType) ==
  [s EXCEPT !.paddle = DEACTIVATE_POWERUP(s, w, effectType).st.paddle]

\* ------------------------------------------------------------------------
\* UPDATE_GAME
\* ------------------------------------------------------------------------
UpdateStar(star) ==
  LET newAlpha == star.alpha + star.dAlpha
      lo == 2 * (Unit \div 10)
      hi == 7 * (Unit \div 10)
  IN  IF newAlpha < lo \/ newAlpha > hi
      THEN [star EXCEPT !.alpha = Max(lo, Min(hi, newAlpha)), !.dAlpha = -star.dAlpha]
      ELSE [star EXCEPT !.alpha = newAlpha]

UpdateParticles_KeepsSpent(particles) ==
  SelectSeq([i \in 1..Len(particles) |->
               [particles[i] EXCEPT !.x = particles[i].x + particles[i].dx,
                                    !.y = particles[i].y + particles[i].dy,
                                    !.life = particles[i].life - 1]],
            LAMBDA q : q.life >= 0)

UpdateParticles(particles) ==
  SelectSeq([i \in 1..Len(particles) |->
               [particles[i] EXCEPT !.x = particles[i].x + particles[i].dx,
                                    !.y = particles[i].y + particles[i].dy,
                                    !.life = particles[i].life - 1]],
            LAMBDA q : q.life > 0)

UpdatePowerUps(powerUps) ==
  SelectSeq([i \in 1..Len(powerUps) |->
               [powerUps[i] EXCEPT !.y = powerUps[i].y + Px(POWERUP_SPEED)]],
            LAMBDA q : q.y < Px(CANVAS_HEIGHT))

\* updatedPowerUps.forEach(p => newState = gameReducer(newState, SPAWN_PARTICLES ...))
RECURSIVE PowerUpTrails(_, _, _, _)
PowerUpTrails(acc, pus, i, e) ==
  IF i > Len(pus) THEN acc
  ELSE PowerUpTrails(
         SPAWN_PARTICLES(acc.st, acc.w,
           [x |-> pus[i].x + Half(pus[i].width),
            y |-> pus[i].y + Half(pus[i].height),
            color |-> IF pus[i].category = "POSITIVE" THEN "#0ea5e9" ELSE "#ef4444",
            count |-> 1,
            speed |-> Half(Unit)], e),
         pus, i + 1, e)

\* The AABB test of a falling power-up against the paddle
Collects(paddle, powerUp) ==
  /\ powerUp.x < paddle.x + paddle.width
  /\ powerUp.x + powerUp.width > paddle.x
  /\ powerUp.y + powerUp.height > Px(CANVAS_HEIGHT - PADDLE_Y_OFFSET - PADDLE_HEIGHT)
  /\ powerUp.y < Px(CANVAS_HEIGHT - PADDLE_Y_OFFSET)

HitsWall(ball) ==
  \/ ball.x + ball.dx + ball.radius > Px(CANVAS_WIDTH)
  \/ ball.x + ball.dx - ball.radius < 0

HitsCeiling(ball) == ball.y + ball.dy - ball.radius < 0

HitsPaddle(paddle, ball) ==
  /\ ball.y + ball.dy + ball.radius > Px(CANVAS_HEIGHT - PADDLE_Y_OFFSET) - paddle.height
  /\ ball.y + ball.dy - ball.radius < Px(CANVAS_HEIGHT - PADDLE_Y_OFFSET)
  /\ ball.x + ball.dx + ball.radius > paddle.x
  /\ ball.x + ball.dx - ball.radius < paddle.x + paddle.width

InBrick(brick, x, y) ==
  /\ brick.active
  /\ x > brick.x /\ x < brick.x + brick.width
  /\ y > brick.y /\ y < brick.y + brick.height

\* newBall after the wall, ceiling and paddle tests of one ball
Bounce(paddle, ball) ==
  LET afterWall == IF HitsWall(ball) THEN [ball EXCEPT !.dx = -ball.dx] ELSE ball
      afterCeiling == IF HitsCeiling(ball)
                      THEN [afterWall EXCEPT !.dy = -afterWall.dy]
                      ELSE afterWall
  IN  IF HitsPaddle(paddle, ball)
      THEN IF paddle.hasGrab
           THEN [afterCeiling EXCEPT
                   !.dx = 0, !.dy = 0,
                   !.y = Px(CANVAS_HEIGHT - PADDLE_Y_OFFSET - PADDLE_HEIGHT) - ball.radius]
           ELSE [afterCeiling EXCEPT
                   !.dy = -afterCeiling.dy,
                   !.dx = Times01((ball.x + ball.dx) - (paddle.x + Half(paddle.width)))]
      ELSE afterCeiling

\* The particles one ball spawns: its trail, then the wall, ceiling and
\* paddle sparks, in that order.
BallParticles(acc, paddle, ball, e) ==
  LET white(n, sp, x, y) == [x |-> x, y |-> y, color |-> "#FFFFFF", count |-> n, speed |-> sp]
      spark(hit, a, p) == IF hit THEN SPAWN_PARTICLES(a.st, a.w, p, e) ELSE a
      a0 == SPAWN_PARTICLES(acc.st, acc.w,
              [x |-> ball.x, y |-> ball.y,
               color |-> IF ball.isThru THEN "#F472B6" ELSE "#06B6D4",
               count |-> 1, speed |-> Half(Unit)], e)
  IN  spark(HitsPaddle(paddle, ball),
            spark(HitsCeiling(ball),
                  spark(HitsWall(ball), a0, white(5, Px(1), ball.x, ball.y)),
                  white(5, Px(1), ball.x, ball.y)),
            white(10, Px(2), ball.x + ball.dx, ball.y + ball.dy))

\* for (const ball of state.balls) { ... }: acc = [st, w, nextBalls, hit],
\* st the newState built so far, hit the flag brickHitOccurred.
RECURSIVE BallsLoop(_, _, _, _)
BallsLoop(s, acc, i, e) ==
  IF i > Len(s.balls) THEN acc
  ELSE
    LET ball == s.balls[i]
    IN  IF IsStuck(ball)
        THEN BallsLoop(s, [acc EXCEPT !.nextBalls = Append(acc.nextBalls, ball)], i + 1, e)
        ELSE
          LET sparks == BallParticles(acc, s.paddle, ball, e)
              newBallX == ball.x + ball.dx
              newBallY == ball.y + ball.dy
              newBall == Bounce(s.paddle, ball)
              hits == {k \in 1..Len(s.bricks) : InBrick(s.bricks[k], newBallX, newBallY)}
          IN  IF hits # {}
              THEN LET brick == s.bricks[CHOOSE k \in hits : \A j \in hits : k <= j]
                       r == BRICK_HIT(sparks.st, sparks.w, brick.id, ball.id, e)
                   IN  BallsLoop(s, [st |-> r.st, w |-> r.w,
                                     nextBalls |-> acc.nextBalls, hit |-> TRUE], i + 1, e)
              ELSE IF acc.hit
              THEN BallsLoop(s, [acc EXCEPT !.st = sparks.st, !.w = sparks.w], i + 1, e)
              ELSE BallsLoop(s,
                     [st |-> sparks.st, w |-> sparks.w, hit |-> FALSE,
                      nextBalls |->
                        IF newBallY + ball.radius < Px(CANVAS_HEIGHT)
                        THEN Append(acc.nextBalls,
                                    [newBall EXCEPT !.x = newBall.x + newBall.dx,
                                                    !.y = newBall.y + newBall.dy])
                        ELSE acc.nextBalls],
                     i + 1, e)

\* the body of the UPDATE_GAME case after its status guard
UpdateFrame(s, w, e) ==
    LET updatedPowerUps == UpdatePowerUps(s.powerUps)
        aged == [s EXCEPT !.stars = [i \in 1..Len(s.stars) |-> UpdateStar(s.stars[i])],
                          !.particles = UpdateParticles(s.particles)]
        trailed == PowerUpTrails([st |-> aged, w |-> w], updatedPowerUps, 1, e)
        newState == [trailed.st EXCEPT !.powerUps = updatedPowerUps]
        collected == {k \in 1..Len(s.powerUps) : Collects(s.paddle, s.powerUps[k])}
    IN  IF collected # {}
        THEN ACTIVATE_POWERUP(newState, trailed.w,
               s.powerUps[CHOOSE k \in collected : \A j \in collected : k <= j], e)
        ELSE
          LET looped == BallsLoop(s, [st |-> newState, w |-> trailed.w,
                                      nextBalls |-> <<>>, hit |-> FALSE], 1, e)
          IN  IF looped.hit
              THEN [st |-> looped.st, w |-> looped.w]
              ELSE LET moved == [looped.st EXCEPT !.balls = looped.nextBalls]
                   IN  IF Len(moved.balls) = 0
                       THEN LOSE_LIFE(moved, looped.w, e)
                       ELSE [st |-> moved, w |-> looped.w]

UPDATE_GAME_AnyBallLost(s, w, e) ==
  IF s.status # "PLAYING" THEN [st |-> s, w |-> w]
  ELSE LET r == UpdateFrame(s, w, e)
       IN  IF r.st.status = "PLAYING" /\ Len(r.st.balls) < Len(s.balls)
           THEN LOSE_LIFE(r.st, r.w, e)
           ELSE r

UPDATE_GAME_CollectAndMove(s, w, e) ==
  IF s.status # "PLAYING" THEN [st |-> s, w |-> w]
  ELSE LET r == UpdateFrame(s, w, e)
       IN  IF /\ \E k \in 1..Len(s.powerUps) : Collects(s.paddle, s.powerUps[k])
              /\ r.st.status = "PLAYING"
           THEN UpdateFrame([r.st EXCEPT !.powerUps = <<>>], r.w, e)
           ELSE r

UPDATE_GAME_HitDropsLost(s, w, e) ==
  IF s.status # "PLAYING" THEN [st |-> s, w |-> w]
  ELSE LET r == UpdateFrame(s, w, e)
       IN  IF r.st.score > s.score
           THEN [r EXCEPT !.st.balls =
                   SelectSeq(r.st.balls,
                             LAMBDA b : IsStuck(b) \/ b.y + b.radius < Px(CANVAS_HEIGHT) - b.radius)]
           ELSE r

UPDATE_GAME_KeepLostBalls(s, w, e) ==
  IF s.status # "PLAYING" THEN [st |-> s, w |-> w]
  ELSE LET r == UpdateFrame(s, w, e)
       IN  IF /\ r.st.lives = s.lives
              /\ Len(r.st.balls) < Len(s.balls)
              /\ Len(r.st.balls) > 0
           THEN [r EXCEPT !.st.balls = s.balls]
           ELSE r

UPDATE_GAME_MenuOnly(s, w, e) ==
  IF s.status = "MENU" THEN [st |-> s, w |-> w] ELSE UpdateFrame(s, w, e)

UPDATE_GAME(s, w, e) ==
  IF s.status # "PLAYING" THEN [st |-> s, w |-> w] ELSE UpdateFrame(s, w, e)

\* ------------------------------------------------------------------------
\* gameReducer: the switch on action.type.  An action a is a record
\* [type, x, y, brickId, ballId, effectType, powerUp, particles].
\* ------------------------------------------------------------------------
gameReducer(s, w, a, e) ==
  CASE a.type = "START_LEVEL" -> START_LEVEL(s, w, e)
    [] a.type = "LAUNCH_BALL" -> LAUNCH_BALL(s, w)
    [] a.type = "MOVE_PADDLE" -> MOVE_PADDLE(s, w, a.x)
    [] a.type = "LOSE_LIFE" -> LOSE_LIFE(s, w, e)
    [] a.type = "BRICK_HIT" -> BRICK_HIT(s, w, a.brickId, a.ballId, e)
    [] a.type = "SPAWN_PARTICLES" -> SPAWN_PARTICLES(s, w, a.particles, e)
    [] a.type = "SPAWN_POWERUP" -> SPAWN_POWERUP(s, w, a.x, a.y, e)
    [] a.type = "ACTIVATE_POWERUP" -> ACTIVATE_POWERUP(s, w, a.powerUp, e)
    [] a.type = "DEACTIVATE_POWERUP" -> DEACTIVATE_POWERUP(s, w, a.effectType)
    [] a.type = "UPDATE_GAME" -> UPDATE_GAME(s, w, e)
    [] OTHER -> [st |-> s, w |-> w]

\* ------------------------------------------------------------------------
\* The reducer as a state machine: intents are dispatched one after the
\* other, with inputs drawn from small sets.
\* ------------------------------------------------------------------------
VARIABLES
  state,      \* the GameState the reducer last returned
  timers,     \* the browser's pending timers, a set of [id, cb]
  nextTimer,  \* the handle the next setTimeout returns
  now,        \* Date.now(); an animation frame advances it
  last,       \* the intent dispatched last (history)
  loop        \* the animation frames of GamePage: the pending callbacks, the
              \* ref animationFrameId, the next handle, and whether a render
              \* changed a dependency of the loop effect that has not run yet

vars == <<state, timers, nextTimer, now, last, loop>>

World == [timers |-> timers, next |-> nextTimer, arrays |-> 0]

Seeds == 0..(NSeeds - 1)

\* Math.random() < POWERUP_CHANCE: the two values on either side of it
ChanceDraws == {POWERUP_CHANCE - 1, POWERUP_CHANCE}

\* one draw per power-up type
PickDraws == {(k * Unit) \div Len(PowerUpTypes) : k \in 0..(Len(PowerUpTypes) - 1)}

Env(t, seed, chance, pick) == [now |-> t, seed |-> seed, chance |-> chance, pick |-> pick]

\* the history of a step: the intent dispatched, the status it was
\* dispatched in, the handle of the timer that dispatched it (0: none) and
\* the number of pending expiry callbacks the step cancelled
Intent(type, x, brickId, ballId, kind) ==
  [type |-> type, x |-> x, brickId |-> brickId, ballId |-> ballId, kind |-> kind,
   from |-> state.status, timer |-> 0, cancelled |-> 0]

Plain(type) == Intent(type, 0, <<>>, <<>>, "")

Init ==
  /\ \E seed \in Seeds : state = getInitialState(seed)
  /\ timers = {}
  /\ nextTimer = 1
  /\ now = 0
  /\ last = [type |-> "INIT", x |-> 0, brickId |-> <<>>, ballId |-> <<>>, kind |-> "",
             from |-> "MENU", timer |-> 0, cancelled |-> 0]
  /\ loop = [frames |-> {}, ref |-> 0, next |-> 1, dirty |-> FALSE]

\* The states the model explores
BoundedState(r) ==
  /\ r.st.level <= MaxLevel
  /\ r.st.score <= MaxScore
  /\ Len(r.st.balls) <= MaxBalls
  /\ Len(r.st.powerUps) <= MaxPowerUps
  /\ Len(r.st.activeEffects) <= MaxEffects

Bounded(r) ==
  /\ BoundedState(r)
  /\ r.w.next <= MaxTimers + 1

Commit(r, intent) ==
  /\ Bounded(r)
  /\ state' = r.st
  /\ timers' = r.w.timers
  /\ nextTimer' = r.w.next
  /\ last' = intent
  /\ UNCHANGED loop

\* Inputs
PaddleXs == {Px(-50), Px(900)}

GhostId == <<0, 0, 0>>

FirstActive(bricks) ==
  LET act == {k \in 1..Len(bricks) : bricks[k].active}
  IN  IF act = {} THEN {} ELSE {bricks[CHOOSE k \in act : \A j \in act : k <= j].id}

\* a brick that is not in the grid, the first active brick, and the first
\* brick of the grid (inactive once it was hit)
BrickIdInputs(s) ==
  {GhostId} \cup FirstActive(s.bricks)
            \cup (IF Len(s.bricks) > 0 THEN {s.bricks[1].id} ELSE {})

BallIdInputs(s) == {<<>>} \cup {s.balls[i].id : i \in 1..Len(s.balls)}

\* where a power-up is spawned: a point in the band of the paddle
SpawnPoints == {<<Px(370), Px(530)>>}

ParticlePayload ==
  [x |-> Px(400), y |-> Px(300), color |-> "#FFFFFF", count |-> 2, speed |-> Px(1)]

StartLevel ==
  /\ \E seed \in Seeds :
       Commit(START_LEVEL(state, World, Env(now, seed, 0, 0)), Plain("START_LEVEL"))
  /\ UNCHANGED now

LaunchBall ==
  /\ Commit(LAUNCH_BALL(state, World), Plain("LAUNCH_BALL"))
  /\ UNCHANGED now

MovePaddle ==
  /\ \E x \in PaddleXs :
       Commit(MOVE_PADDLE(state, World, x), Intent("MOVE_PADDLE", x, <<>>, <<>>, ""))
  /\ UNCHANGED now

LoseLife ==
  /\ Commit(LOSE_LIFE(state, World, Env(now, 0, 0, 0)), Plain("LOSE_LIFE"))
  /\ UNCHANGED now

BrickHitWith(brickIds, chances, picks) ==
  /\ \E brickId \in brickIds, ballId \in BallIdInputs(state),
        seed \in Seeds, chance \in chances, pick \in picks :
       Commit(BRICK_HIT(state, World, brickId, ballId, Env(now, seed, chance, pick)),
              Intent("BRICK_HIT", 0, brickId, ballId, ""))
  /\ UNCHANGED now

BrickHit == BrickHitWith(BrickIdInputs(state), {POWERUP_CHANCE}, {0})

\* the draw that picks type t
PickOf(t) == CHOOSE d \in PickDraws : PowerUpTypes[((d * Len(PowerUpTypes)) \div Unit) + 1] = t

SpawnPowerUp ==
  /\ \E pt \in SpawnPoints, pick \in {PickOf(t) : t \in TimedTypes} :
       Commit(SPAWN_POWERUP(state, World, pt[1], pt[2], Env(now, 0, 0, pick)),
              Intent("SPAWN_POWERUP", pt[2], <<>>, <<>>, ""))
  /\ UNCHANGED now

ActivatePowerUp ==
  /\ \E k \in 1..Len(state.powerUps) :
       Commit(ACTIVATE_POWERUP(state, World, state.powerUps[k], Env(now, 0, 0, 0)),
              Intent("ACTIVATE_POWERUP", 0, <<>>, <<>>, state.powerUps[k].type))
  /\ UNCHANGED now

ActiveTypes(s) == {s.activeEffects[i].type : i \in 1..Len(s.activeEffects)}

DeactivatePowerUp ==
  /\ \E effectType \in ActiveTypes(state) \cup {"EXPAND_PADDLE"} :
       Commit(DEACTIVATE_POWERUP(state, World, effectType),
              Intent("DEACTIVATE_POWERUP", 0, <<>>, <<>>, effectType))
  /\ UNCHANGED now

UpdateGame ==
  /\ now < MaxNow
  /\ now' = now + 1
  /\ \E seed \in Seeds :
       Commit(UPDATE_GAME(state, World, Env(now + 1, seed, POWERUP_CHANCE, 0)),
              Plain("UPDATE_GAME"))

\* Spec: the game of bricks, balls and lives
Next ==
  \/ StartLevel
  \/ LaunchBall
  \/ MovePaddle
  \/ LoseLife
  \/ BrickHit
  \/ UpdateGame

Spec == Init /\ [][Next]_vars

\* SpecPowerUps: the power-up subsystem
NextPowerUps ==
  \/ StartLevel
  \/ LaunchBall
  \/ SpawnPowerUp
  \/ ActivatePowerUp
  \/ DeactivatePowerUp
  \/ UpdateGame

SpecPowerUps == Init /\ [][NextPowerUps]_vars



\* ------------------------------------------------------------------------
\* GamePage: the component that owns the reducer.  Its callbacks (the
\* overlay button, the click and mousemove listeners, the animation frame,
\* the expiry timers) dispatch intents; each dispatch is reduced and
\* rendered before the next callback runs, and the render runs the
\* component's effects.
\* ------------------------------------------------------------------------
RECURSIVE RegisterTimers(_, _, _)
\* state.activeEffects.forEach(effect => { clearTimeout(effect.timeoutId);
\*   effect.timeoutId = setTimeout(() => dispatch(DEACTIVATE_POWERUP), ...) })
RegisterTimers(effects, w, i) ==
  IF i > Len(effects) THEN [effects |-> effects, w |-> w]
  ELSE LET cleared == clearTimeout(w, effects[i].timeoutId)
           newTimeoutId == cleared.next
       IN  RegisterTimers([effects EXCEPT ![i].timeoutId = newTimeoutId],
                          setTimeout(cleared, effects[i].type), i + 1)

\* The render that follows a reducer call r made on the state s of the
\* previous render.  The effect of the loop has the dependencies
\* state.status, handleClick (state.status), handleMouseMove
\* (state.paddle.width) and the array state.activeEffects; when one of
\* them changed its cleanup runs first, with the array the previous render
\* saw (a push of the reducer landed in that same array).  Then the
\* registration effect runs if state.activeEffects.length changed.
Render(s, r) ==
  LET loopChanged == \/ r.st.status # s.status
                     \/ r.st.paddle.width # s.paddle.width
                     \/ r.w.arrays > 0
      oldEffects == IF r.w.arrays > 0 THEN s.activeEffects ELSE r.st.activeEffects
      cleaned == IF loopChanged THEN ClearEffectTimers(r.w, oldEffects) ELSE r.w
      registered == IF Len(r.st.activeEffects) # Len(s.activeEffects)
                    THEN RegisterTimers(r.st.activeEffects, cleaned, 1)
                    ELSE [effects |-> r.st.activeEffects, w |-> cleaned]
  IN  [st |-> [r.st EXCEPT !.activeEffects = registered.effects], w |-> registered.w]

\* the pending expiry callbacks: the timers that dispatch
Expiries(ts) == {t \in ts : t.cb # "noop"}

PageStep(r, intent, fired) ==
  LET out == Render(state, r)
  IN  /\ BoundedState(out)
      /\ out.w.next <= MaxHandles + 1
      /\ state' = out.st
      /\ timers' = out.w.timers
      /\ nextTimer' = out.w.next
      /\ last' = [intent EXCEPT
                    !.timer = fired,
                    !.cancelled = Cardinality({t \in Expiries(timers) :
                                                 t.id # fired /\ t \notin out.w.timers})]

\* a callback that leaves the animation frames alone
PageCommit(r, intent, fired) ==
  /\ PageStep(r, intent, fired)
  /\ UNCHANGED loop

\* where the pointer is, relative to the canvas
MouseXs == {Px(-50), Px(900)}

\* the x handleMouseMove dispatches
ClampedX(s, relativeX) ==
  LET paddleX == relativeX - Half(s.paddle.width)
  IN  IF paddleX < 0 THEN 0
      ELSE IF paddleX + s.paddle.width > Px(CANVAS_WIDTH)
           THEN Px(CANVAS_WIDTH) - s.paddle.width
           ELSE paddleX

\* the types of the drops the page is shown
PageDrops == {"EXPAND_PADDLE", "FAST_BALL", "KILL_PADDLE"}

handleButtonClick ==
  /\ state.status # "PLAYING"
  /\ \E seed \in Seeds :
       PageCommit(START_LEVEL(state, World, Env(now, seed, 0, 0)), Plain("START_LEVEL"), 0)
  /\ UNCHANGED now

handleClick ==
  /\ state.status = "PLAYING"
  /\ PageCommit(LAUNCH_BALL(state, World), Plain("LAUNCH_BALL"), 0)
  /\ UNCHANGED now

handleMouseMove ==
  /\ state.status = "PLAYING"
  /\ \E relativeX \in MouseXs :
       PageCommit(MOVE_PADDLE(state, World, ClampedX(state, relativeX)),
                  Intent("MOVE_PADDLE", ClampedX(state, relativeX), <<>>, <<>>, ""), 0)
  /\ UNCHANGED now

gameLoop ==
  /\ state.status = "PLAYING"
  /\ now < MaxFrames
  /\ now' = now + 1
  /\ \E seed \in Seeds :
       PageCommit(UPDATE_GAME(state, World, Env(now + 1, seed, POWERUP_CHANCE, 0)),
                  Plain("UPDATE_GAME"), 0)

\* the power-up a brick dropped, at the moment it has fallen into the band
\* of the paddle
PowerUpFalls ==
  /\ state.status = "PLAYING"
  /\ \E pt \in SpawnPoints, t \in PageDrops :
       PageCommit(SPAWN_POWERUP(state, World, pt[1], pt[2], Env(now, 0, 0, PickOf(t))),
                  Intent("SPAWN_POWERUP", pt[2], <<>>, <<>>, t), 0)
  /\ UNCHANGED now

\* a pending timer fires: the callback the reducer registered does
\* nothing, the one the component registered dispatches DEACTIVATE_POWERUP
TimerFires ==
  /\ \E t \in timers :
       IF t.cb = "noop"
       THEN /\ timers' = timers \ {t}
            /\ last' = [Plain("TIMER") EXCEPT !.timer = t.id]
            /\ UNCHANGED <<state, nextTimer, loop>>
       ELSE PageCommit(DEACTIVATE_POWERUP(state, clearTimeout(World, t.id), t.cb),
                       Intent("DEACTIVATE_POWERUP", 0, <<>>, <<>>, t.cb), t.id)
  /\ UNCHANGED now

NextPage ==
  \/ handleButtonClick
  \/ handleClick
  \/ handleMouseMove
  \/ gameLoop
  \/ PowerUpFalls
  \/ TimerFires

SpecPage == Init /\ [][NextPage]_vars


\* ------------------------------------------------------------------------
\* SpecLevel: a level played to its end.  Bricks are hit one after the
\* other, in grid order, until none is left; START_LEVEL then builds the
\* next level.  A LOSE_LIFE is dispatched only outside PLAYING here (the
\* life lost during play is in Spec).
\* ------------------------------------------------------------------------
CommitLevel(r, intent) ==
  /\ r.st.level <= MaxLevels
  /\ state' = r.st
  /\ timers' = r.w.timers
  /\ nextTimer' = r.w.next
  /\ last' = intent
  /\ UNCHANGED loop

StartNextLevel ==
  /\ \E seed \in Seeds :
       CommitLevel(START_LEVEL(state, World, Env(now, seed, 0, 0)), Plain("START_LEVEL"))
  /\ UNCHANGED now

BrickHitNext ==
  /\ \E brickId \in FirstActive(state.bricks), ballId \in BallIdInputs(state) :
       CommitLevel(BRICK_HIT(state, World, brickId, ballId,
                             Env(now, 0, POWERUP_CHANCE, 0)),
                   Intent("BRICK_HIT", 0, brickId, ballId, ""))
  /\ UNCHANGED now

StrayLoseLife ==
  /\ state.status # "PLAYING"
  /\ CommitLevel(LOSE_LIFE(state, World, Env(now, 0, 0, 0)), Plain("LOSE_LIFE"))
  /\ UNCHANGED now

NextLevelPlay ==
  \/ StartNextLevel
  \/ BrickHitNext
  \/ StrayLoseLife

SpecLevel == Init /\ [][NextLevelPlay]_vars

\* ------------------------------------------------------------------------
\* SpecRally: one rally on the page, followed frame by frame.  The ball is
\* launched, a SPLIT_BALL and a GRAB_PADDLE may be collected at the start,
\* the paddle may be moved under the right-hand ball, which the grabbing
\* paddle then catches while the other ball is still in flight.
\* ------------------------------------------------------------------------
\* the pointer over the place where the right-hand ball comes down
RallyMouseXs == {Px(630)}

\* the power-ups this slice drops: the ones without a timer
RallyDrops == {"SPLIT_BALL", "GRAB_PADDLE"}

RallyMouseMove ==
  /\ state.status = "PLAYING"
  /\ \E relativeX \in RallyMouseXs :
       PageCommit(MOVE_PADDLE(state, World, ClampedX(state, relativeX)),
                  Intent("MOVE_PADDLE", ClampedX(state, relativeX), <<>>, <<>>, ""), 0)
  /\ UNCHANGED now

\* a brick a ball in flight hit dropped a power-up: it is followed from the
\* moment it has fallen into the band of the paddle, where the next frame
\* collects it
RallyDrop ==
  /\ state.status = "PLAYING"
  /\ \E i \in 1..Len(state.balls) : ~IsStuck(state.balls[i])
  /\ now <= MaxDropTick
  /\ \E pt \in SpawnPoints, t \in RallyDrops :
       PageCommit(SPAWN_POWERUP(state, World, pt[1], pt[2], Env(now, 0, 0, PickOf(t))),
                  Intent("SPAWN_POWERUP", pt[2], <<>>, <<>>, t), 0)
  /\ UNCHANGED now

\* requestAnimationFrame: a frame while a power-up falls or a ball flies
RallyFrame ==
  /\ state.status = "PLAYING"
  /\ \/ state.powerUps # <<>>
     \/ \E i \in 1..Len(state.balls) : ~IsStuck(state.balls[i])
  /\ now < MaxTicks
  /\ now' = now + 1
  /\ \E seed \in Seeds :
       PageCommit(UPDATE_GAME(state, World, Env(now + 1, seed, POWERUP_CHANCE, 0)),
                  Plain("UPDATE_GAME"), 0)

NextRally ==
  \/ handleButtonClick
  \/ handleClick
  \/ RallyMouseMove
  \/ RallyDrop
  \/ RallyFrame

SpecRally == Init /\ [][NextRally]_vars

\* ------------------------------------------------------------------------
\* SpecWalls: a ball launched from the middle of the paddle while FAST_BALL
\* power-ups fall onto the paddle one after the other.  Each one collected
\* multiplies the velocity of the ball again.
\* ------------------------------------------------------------------------
CommitWalls(r, intent) ==
  /\ Len(r.st.activeEffects) <= MaxStack
  /\ Len(r.st.powerUps) <= MaxPowerUps
  /\ Len(r.st.balls) <= MaxBalls
  /\ state' = r.st
  /\ timers' = r.w.timers
  /\ nextTimer' = r.w.next
  /\ last' = intent
  /\ UNCHANGED loop

WallStart ==
  /\ state.status = "MENU"
  /\ CommitWalls(START_LEVEL(state, World, Env(now, 0, 0, 0)), Plain("START_LEVEL"))
  /\ UNCHANGED now

WallLaunch ==
  /\ state.status = "PLAYING"
  /\ CommitWalls(LAUNCH_BALL(state, World), Plain("LAUNCH_BALL"))
  /\ UNCHANGED now

\* a brick the ball hit dropped a FAST_BALL: it is followed from the moment
\* it has fallen into the band of the paddle.  The power-ups arrive in
\* consecutive frames: every frame so far collected one.
WallDrop ==
  /\ state.status = "PLAYING"
  /\ \E i \in 1..Len(state.balls) : ~IsStuck(state.balls[i])
  /\ Len(state.activeEffects) = now
  /\ \E pt \in SpawnPoints :
       CommitWalls(SPAWN_POWERUP(state, World, pt[1], pt[2],
                                 Env(now, 0, 0, PickOf("FAST_BALL"))),
                   Intent("SPAWN_POWERUP", pt[2], <<>>, <<>>, "FAST_BALL"))
  /\ UNCHANGED now

WallFrame ==
  /\ state.status = "PLAYING"
  /\ now < MaxWallTicks
  /\ now' = now + 1
  /\ CommitWalls(UPDATE_GAME(state, World, Env(now + 1, 0, POWERUP_CHANCE, 0)),
                 Plain("UPDATE_GAME"))

NextWalls ==
  \/ WallStart
  \/ WallLaunch
  \/ WallDrop
  \/ WallFrame

SpecWalls == Init /\ [][NextWalls]_vars

\* ------------------------------------------------------------------------
\* SpecThru: a ball launched from the middle of the paddle and followed up
\* into the bricks.  A THRU_BRICK and a SPLIT_BALL may be collected in the
\* first frames, so that the bricks are met by balls with and without
\* isThru, alone and in pairs.
\* ------------------------------------------------------------------------
ThruDrops == {"THRU_BRICK", "SPLIT_BALL"}

ThruStart ==
  /\ state.status = "MENU"
  /\ CommitWalls(START_LEVEL(state, World, Env(now, 0, 0, 0)), Plain("START_LEVEL"))
  /\ UNCHANGED now

ThruLaunch ==
  /\ state.status = "PLAYING"
  /\ \E i \in 1..Len(state.balls) : IsStuck(state.balls[i])
  /\ CommitWalls(LAUNCH_BALL(state, World), Plain("LAUNCH_BALL"))
  /\ UNCHANGED now

ThruDrop ==
  /\ state.status = "PLAYING"
  /\ \E i \in 1..Len(state.balls) : ~IsStuck(state.balls[i])
  /\ now <= MaxDropTick
  /\ \E pt \in SpawnPoints, t \in ThruDrops :
       CommitWalls(SPAWN_POWERUP(state, World, pt[1], pt[2], Env(now, 0, 0, PickOf(t))),
                   Intent("SPAWN_POWERUP", pt[2], <<>>, <<>>, t))
  /\ UNCHANGED now

ThruFrame ==
  /\ state.status = "PLAYING"
  /\ \E i \in 1..Len(state.balls) : ~IsStuck(state.balls[i])
  /\ now < MaxThruTicks
  /\ now' = now + 1
  /\ CommitWalls(UPDATE_GAME(state, World, Env(now + 1, 0, POWERUP_CHANCE, 0)),
                 Plain("UPDATE_GAME"))

NextThru ==
  \/ ThruStart
  \/ ThruLaunch
  \/ ThruDrop
  \/ ThruFrame

SpecThru == Init /\ [][NextThru]_vars

\* ------------------------------------------------------------------------
\* SpecLoop: the animation frames of GamePage.  A callback runs to its end
\* before anything else does; the dispatch it makes is reduced and rendered
\* after it, and the loop effect of a render whose dependencies changed
\* runs later: before the next render at the latest, and possibly after a
\* frame callback that was already pending.
\* ------------------------------------------------------------------------

\* the handle is l.next
requestAnimationFrame(l) == [l EXCEPT !.frames = @ \cup {l.next}, !.next = @ + 1]

cancelAnimationFrame(l, id) == [l EXCEPT !.frames = @ \ {id}]

\* the dependencies of the loop effect: state.status (also through
\* handleClick), state.paddle.width (through handleMouseMove) and the array
\* state.activeEffects
LoopDepsChanged(s, r) ==
  \/ r.st.status # s.status
  \/ r.st.paddle.width # s.paddle.width
  \/ r.w.arrays > 0

LoopEffect_NoCleanup(l, status) ==
  IF status = "PLAYING"
  THEN [requestAnimationFrame(l) EXCEPT !.ref = l.next, !.dirty = FALSE]
  ELSE [(IF l.ref # 0 THEN cancelAnimationFrame(l, l.ref) ELSE l) EXCEPT !.dirty = FALSE]

\* the cleanup of the previous run of the loop effect, then its body, for
\* a render with the given status
LoopEffect(l, status) ==
  LET cleaned == IF l.ref # 0 THEN cancelAnimationFrame(l, l.ref) ELSE l
  IN  IF status = "PLAYING"
      THEN [requestAnimationFrame(cleaned) EXCEPT !.ref = cleaned.next, !.dirty = FALSE]
      ELSE [(IF cleaned.ref # 0 THEN cancelAnimationFrame(cleaned, cleaned.ref) ELSE cleaned)
              EXCEPT !.dirty = FALSE]

\* the render after a callback that left the animation frames as l: an
\* effect still to run runs first, for the render it belongs to
LoopStep(r, intent, l) ==
  LET flushed == IF l.dirty THEN LoopEffect(l, state.status) ELSE l
  IN  /\ PageStep(r, intent, 0)
      /\ loop' = [flushed EXCEPT !.dirty = LoopDepsChanged(state, r)]

LoopStart ==
  /\ state.status # "PLAYING"
  /\ LoopStep(START_LEVEL(state, World, Env(now, 0, 0, 0)), Plain("START_LEVEL"), loop)
  /\ UNCHANGED now

LoopDrop ==
  /\ state.status = "PLAYING"
  /\ \E pt \in SpawnPoints, t \in {"EXPAND_PADDLE", "KILL_PADDLE"} :
       PageCommit(SPAWN_POWERUP(state, World, pt[1], pt[2], Env(now, 0, 0, PickOf(t))),
                  Intent("SPAWN_POWERUP", pt[2], <<>>, <<>>, t), 0)
  /\ UNCHANGED now

\* a pending frame callback runs gameLoop: dispatch, requestAnimationFrame,
\* and the handle into the ref
LoopFrame ==
  /\ now < MaxLoopFrames
  /\ now' = now + 1
  /\ \E id \in loop.frames :
       LET fired == cancelAnimationFrame(loop, id)
           again == [requestAnimationFrame(fired) EXCEPT !.ref = fired.next]
       IN  LoopStep(UPDATE_GAME(state, World, Env(now + 1, 0, POWERUP_CHANCE, 0)),
                    Plain("UPDATE_GAME"), again)

\* the loop effect of the last render runs
LoopFlush ==
  /\ loop.dirty
  /\ loop' = LoopEffect(loop, state.status)
  /\ last' = Plain("LOOP_EFFECT")
  /\ UNCHANGED <<state, timers, nextTimer, now>>

NextLoop ==
  \/ LoopStart
  \/ LoopDrop
  \/ LoopFrame
  \/ LoopFlush

SpecLoop == Init /\ [][NextLoop]_vars

\* ------------------------------------------------------------------------
\* SpecGame: whole games at the level of the intents, each raised where the
\* page raises it.  START_LEVEL comes from the button, which is shown
\* outside PLAYING; BRICK_HIT and LOSE_LIFE come from UPDATE_GAME, which
\* returns its input outside PLAYING.
\* ------------------------------------------------------------------------
GameStart ==
  /\ state.status # "PLAYING"
  /\ CommitLevel(START_LEVEL(state, World, Env(now, 0, 0, 0)), Plain("START_LEVEL"))
  /\ UNCHANGED now

GameBrickHit ==
  /\ state.status = "PLAYING"
  /\ \E brickId \in FirstActive(state.bricks), ballId \in BallIdInputs(state) :
       CommitLevel(BRICK_HIT(state, World, brickId, ballId,
                             Env(now, 0, POWERUP_CHANCE, 0)),
                   Intent("BRICK_HIT", 0, brickId, ballId, ""))
  /\ UNCHANGED now

GameLoseLife ==
  /\ state.status = "PLAYING"
  /\ CommitLevel(LOSE_LIFE(state, World, Env(now, 0, 0, 0)), Plain("LOSE_LIFE"))
  /\ UNCHANGED now

NextGame ==
  \/ GameStart
  \/ GameBrickHit
  \/ GameLoseLife

SpecGame == Init /\ [][NextGame]_vars

\* ------------------------------------------------------------------------
\* Properties of the reducer, checked in Spec
\* ------------------------------------------------------------------------
\* the frame's environment at the current state
FrameEnv == Env(now + 1, 0, POWERUP_CHANCE - 1, 0)

\* C1: UPDATE_GAME applied to a state whose status is MENU, LEVEL_COMPLETE
\* or GAME_OVER returns that state, every field identical, and touches no
\* timer.  The case reads nothing but the status before it returns, so the
\* current state is tried as it is and under each status other than PLAYING.
C1_UpdateOutsidePlayingIsIdentity ==
  /\ state.status # "PLAYING" =>
       UPDATE_GAME(state, World, FrameEnv) = [st |-> state, w |-> World]
  /\ \A status \in GameStatus \ {"PLAYING"} :
       LET s == [state EXCEPT !.status = status]
       IN  UPDATE_GAME(s, World, FrameEnv) = [st |-> s, w |-> World]

\* an UPDATE_GAME was dispatched after the last life was lost
C1_Witness ==
  /\ last.type = "UPDATE_GAME"
  /\ state.status = "GAME_OVER"
  /\ state.lives = 0

IsActiveBrick(s, brickId) ==
  \E k \in 1..Len(s.bricks) : s.bricks[k].id = brickId /\ s.bricks[k].active

\* C2: a BRICK_HIT that names a brick which is already inactive, or an id
\* that is not in the grid, returns the state unchanged.
C2_HitOnInactiveOrUnknownBrickIsNoOp ==
  [][(last'.type = "BRICK_HIT" /\ ~IsActiveBrick(state, last'.brickId))
       => state' = state]_vars

\* C5: after a MOVE_PADDLE the paddle lies inside the playfield,
\* 0 <= paddle.x <= CANVAS_WIDTH - paddle.width, whatever x was given.
C5_MovePaddleClampsInReducer ==
  last.type = "MOVE_PADDLE" =>
    /\ 0 <= state.paddle.x
    /\ state.paddle.x <= Px(CANVAS_WIDTH) - state.paddle.width

\* C10: a BRICK_HIT on an active brick adds exactly BRICK_POINTS to the
\* score, makes that brick inactive, leaves every other brick as it was,
\* and changes neither lives nor level.
C10_HitOnActiveBrick ==
  [][(last'.type = "BRICK_HIT" /\ IsActiveBrick(state, last'.brickId))
       => /\ state'.score = state.score + BRICK_POINTS
          /\ Len(state'.bricks) = Len(state.bricks)
          /\ \A k \in 1..Len(state.bricks) :
               IF state.bricks[k].id = last'.brickId
               THEN state'.bricks[k] = [state.bricks[k] EXCEPT !.active = FALSE]
               ELSE state'.bricks[k] = state.bricks[k]
          /\ state'.lives = state.lives
          /\ state'.level = state.level]_vars

\* the second brick of the grid was hit, after the first
C10_Witness ==
  /\ last.type = "BRICK_HIT"
  /\ state.score = 2 * BRICK_POINTS
  /\ \E k \in 1..Len(state.bricks) :
       /\ state.bricks[k].id = last.brickId
       /\ ~state.bricks[k].active
       /\ k > 1
  /\ Cardinality({k \in 1..Len(state.bricks) : ~state.bricks[k].active}) = 2


\* a power-up of type t as SPAWN_POWERUP makes it at the spawn point, and
\* the state in which it falls
SpawnedState(s, t) ==
  SPAWN_POWERUP(s, World, Px(370), Px(530), Env(now, 0, 0, PickOf(t))).st

Spawned(s, t) == SpawnedState(s, t).powerUps[Len(SpawnedState(s, t).powerUps)]

EffectTypes(s) == [i \in 1..Len(s.activeEffects) |-> s.activeEffects[i].type]

\* C3: activeEffects holds at most one entry per PowerUpType in every
\* reachable state.
C3_OneEntryPerType ==
  \A i, j \in 1..Len(state.activeEffects) :
    i # j => state.activeEffects[i].type # state.activeEffects[j].type

\* C4: activating a timed power-up whose type is already in activeEffects
\* does not compound its modifier: the paddle width and the velocity of
\* every ball stay at the single-application magnitude they had.
C4_ReactivationDoesNotCompound ==
  [][(last'.type = "ACTIVATE_POWERUP" /\ last'.kind \in ActiveTypes(state))
       => /\ state'.paddle.width = state.paddle.width
          /\ Len(state'.balls) = Len(state.balls)
          /\ \A i \in 1..Len(state.balls) :
               /\ state'.balls[i].dx = state.balls[i].dx
               /\ state'.balls[i].dy = state.balls[i].dy]_vars

\* C7: the state given to ACTIVATE_POWERUP or DEACTIVATE_POWERUP has, after
\* the call, the paddle.width, the paddle.hasGrab and the activeEffects
\* members it had before: collecting any falling power-up, or expiring any
\* active effect, leaves them alone in the input.
C7_InputStateNotModified ==
  /\ \A k \in 1..Len(state.powerUps) :
       LET after == InputAfterActivate(state, World, state.powerUps[k], Env(now, 0, 0, 0))
       IN  /\ after.paddle.width = state.paddle.width
           /\ after.paddle.hasGrab = state.paddle.hasGrab
           /\ EffectTypes(after) = EffectTypes(state)
  /\ \A effectType \in ActiveTypes(state) :
       LET after == InputAfterDeactivate(state, World, effectType)
       IN  /\ after.paddle.width = state.paddle.width
           /\ after.paddle.hasGrab = state.paddle.hasGrab
           /\ EffectTypes(after) = EffectTypes(state)

\* An action of the reducer
Action(type, x, y, brickId, ballId, effectType, powerUp, particles) ==
  [type |-> type, x |-> x, y |-> y, brickId |-> brickId, ballId |-> ballId,
   effectType |-> effectType, powerUp |-> powerUp, particles |-> particles]

\* the intents whose case reads Math.random(), Date.now() or setTimeout,
\* with payloads taken from the state s
DrawingIntents(s) ==
  {Action("START_LEVEL", 0, 0, <<>>, <<>>, "", <<>>, <<>>),
   Action("LOSE_LIFE", 0, 0, <<>>, <<>>, "", <<>>, <<>>),
   Action("UPDATE_GAME", 0, 0, <<>>, <<>>, "", <<>>, <<>>),
   Action("SPAWN_PARTICLES", 0, 0, <<>>, <<>>, "", <<>>, ParticlePayload),
   Action("SPAWN_POWERUP", Px(370), Px(530), <<>>, <<>>, "", <<>>, <<>>)}
  \cup {Action("BRICK_HIT", 0, 0, brickId, <<>>, "", <<>>, <<>>) :
          brickId \in FirstActive(s.bricks)}
  \cup {Action("ACTIVATE_POWERUP", 0, 0, <<>>, <<>>, "", s.powerUps[k], <<>>) :
          k \in 1..Len(s.powerUps)}
  \cup {Action("ACTIVATE_POWERUP", 0, 0, <<>>, <<>>, "", Spawned(s, t), <<>>) :
          t \in {"SPLIT_BALL", "KILL_PADDLE"}}

\* a second run of the program: another time, other draws, another handle
OtherWorld == [World EXCEPT !.next = nextTimer + 1]

OtherEnvs ==
  {Env(now + 1, 1, POWERUP_CHANCE - 1, PickOf("KILL_PADDLE")),
   Env(now, 0, POWERUP_CHANCE - 1, PickOf("EXPAND_PADDLE"))}

ThisEnv == Env(now, 0, POWERUP_CHANCE, PickOf("EXPAND_PADDLE"))

\* what of a state does not come from a draw, the clock or a timer handle
Observable(s) ==
  [status |-> s.status, score |-> s.score, lives |-> s.lives, level |-> s.level,
   bricks |-> s.bricks, paddle |-> s.paddle,
   balls |-> [i \in 1..Len(s.balls) |->
                [x |-> s.balls[i].x, y |-> s.balls[i].y,
                 dx |-> s.balls[i].dx, dy |-> s.balls[i].dy,
                 radius |-> s.balls[i].radius, isThru |-> s.balls[i].isThru]],
   activeEffects |-> EffectTypes(s),
   particles |-> [i \in 1..Len(s.particles) |->
                    [x |-> s.particles[i].x, y |-> s.particles[i].y,
                     color |-> s.particles[i].color, life |-> s.particles[i].life]]]

\* C8 as stated: two runs from equal states with the same intent produce
\* equal next states, for every intent type.
C8_SameIntentSameNextState ==
  \A a \in DrawingIntents(state), e \in OtherEnvs :
    gameReducer(state, World, a, ThisEnv).st = gameReducer(state, OtherWorld, a, e).st

\* C8: two runs from equal states with the same intent agree on status,
\* score, lives, level, bricks, paddle, the types of the active effects,
\* each ball's position, velocity, radius and isThru, and each particle's
\* position, colour and life.  (They may differ in what is drawn from
\* Math.random(), Date.now() and setTimeout: entity ids, timer handles, the
\* stars of a new game, particle velocity and radius, and whether and
\* which power-up falls.)
C8_RunsAgreeOnObservableState ==
  \A a \in DrawingIntents(state), e \in OtherEnvs :
    Observable(gameReducer(state, World, a, ThisEnv).st)
      = Observable(gameReducer(state, OtherWorld, a, e).st)

\* a launched ball, a falling power-up and an active effect: every drawing
\* intent has something to act on
C8_Witness ==
  /\ state.status = "PLAYING"
  /\ Len(state.activeEffects) > 0
  /\ Len(state.powerUps) > 0
  /\ \E i \in 1..Len(state.balls) : state.balls[i].dy # 0


\* ------------------------------------------------------------------------
\* Properties of the expiry timers, checked in SpecPage
\* ------------------------------------------------------------------------
\* the timer t is the expiry handle of an effect that is active in s
IsHandleOf(s, id, type) ==
  \E i \in 1..Len(s.activeEffects) :
    s.activeEffects[i].timeoutId = id /\ s.activeEffects[i].type = type

\* the state in which the last brick was hit while the effects of s were
\* active, and the START_LEVEL of the overlay button rendered from it
LevelComplete(s) ==
  [s EXCEPT !.status = "LEVEL_COMPLETE",
            !.bricks = [k \in 1..Len(s.bricks) |-> [s.bricks[k] EXCEPT !.active = FALSE]]]

NextLevel(s) == Render(LevelComplete(s), START_LEVEL(LevelComplete(s), World, Env(now, 0, 0, 0)))

C6_WitnessLater ==
  /\ last.type = "DEACTIVATE_POWERUP"
  /\ state.lives < INITIAL_LIVES
  /\ last.timer > 3


\* ------------------------------------------------------------------------
\* Lives, levels and status, checked in Spec
\* ------------------------------------------------------------------------
\* C11: lives is never negative; LOSE_LIFE applied with lives = 1 gives
\* lives = 0 and status GAME_OVER, and LOSE_LIFE applied again, in
\* GAME_OVER with lives = 0, gives lives = 0 and status GAME_OVER.
C11_LivesNeverNegative ==
  /\ state.lives >= 0
  /\ state.lives <= 1 =>
       LET after == LOSE_LIFE(state, World, Env(now, 0, 0, 0)).st
       IN  after.lives = 0 /\ after.status = "GAME_OVER"

\* the last life was lost
C11_Witness ==
  /\ last.type = "LOSE_LIFE"
  /\ state.lives = 0
  /\ state.status = "GAME_OVER"
  /\ state.score = 0


\* ------------------------------------------------------------------------
\* The end of a level (C12, C13, C15 in SpecLevel) and the start of a game
\* (C14 in Spec)
\* ------------------------------------------------------------------------
ActiveBricks(s) == {k \in 1..Len(s.bricks) : s.bricks[k].active}

\* C12: a BRICK_HIT that deactivates the last active brick sets status to
\* LEVEL_COMPLETE, with every brick inactive and the score 10 higher (990
\* becomes 1000); a BRICK_HIT that leaves a brick active leaves the status
\* as it was.
C12_LastBrickCompletesLevel ==
  /\ [][(last'.type = "BRICK_HIT" /\ IsActiveBrick(state, last'.brickId)) =>
          IF Cardinality(ActiveBricks(state)) = 1
          THEN /\ state'.status = "LEVEL_COMPLETE"
               /\ ActiveBricks(state') = {}
               /\ state'.score = state.score + BRICK_POINTS
          ELSE /\ state'.status = state.status
               /\ ActiveBricks(state') # {}]_vars
  /\ [](Cardinality(ActiveBricks(state)) = 1 =>
          \A brickId \in FirstActive(state.bricks) :
            LET after == BRICK_HIT([state EXCEPT !.score = 99 * BRICK_POINTS], World,
                                   brickId, <<>>, Env(now, 0, POWERUP_CHANCE, 0)).st
            IN  /\ after.score = 100 * BRICK_POINTS
                /\ after.status = "LEVEL_COMPLETE"
                /\ ActiveBricks(after) = {})

\* the seventieth brick of level 1 was hit
C12_Witness ==
  /\ last.type = "BRICK_HIT"
  /\ state.status = "LEVEL_COMPLETE"
  /\ state.level = 1
  /\ ActiveBricks(state) = {}
  /\ state.score = BRICK_ROW_COUNT * BRICK_COLUMN_COUNT * BRICK_POINTS


\* C13: START_LEVEL applied in LEVEL_COMPLETE gives status PLAYING, the
\* level one higher, score and lives unchanged, and the full grid of the
\* new level, every brick active.
C13_StartLevelAdvances ==
  [][(last'.type = "START_LEVEL" /\ state.status = "LEVEL_COMPLETE") =>
       /\ state'.status = "PLAYING"
       /\ state'.level = state.level + 1
       /\ state'.score = state.score
       /\ state'.lives = state.lives
       /\ Len(state'.bricks) = BrickRows(state.level + 1) * BRICK_COLUMN_COUNT
       /\ \A k \in 1..Len(state'.bricks) :
            /\ state'.bricks[k].active
            /\ state'.bricks[k].id[1] = state.level + 1
       /\ \A j, k \in 1..Len(state'.bricks) :
            j # k => state'.bricks[j].id # state'.bricks[k].id]_vars

\* level 2 was started from the completed level 1, all lives left
C13_Witness ==
  /\ last.type = "START_LEVEL"
  /\ state.status = "PLAYING"
  /\ state.level = 2
  /\ state.lives = INITIAL_LIVES
  /\ state.score = BRICK_ROW_COUNT * BRICK_COLUMN_COUNT * BRICK_POINTS
  /\ Cardinality(ActiveBricks(state)) = (BRICK_ROW_COUNT + 1) * BRICK_COLUMN_COUNT


\* C14: START_LEVEL applied in MENU or GAME_OVER gives score 0, lives 3,
\* level 1 and status PLAYING, exactly one ball and its velocity (0,0),
\* no active effect, no falling power-up, and the paddle at the base width.
C14_StartLevelNewGame ==
  [][(last'.type = "START_LEVEL" /\ state.status \in {"MENU", "GAME_OVER"}) =>
       /\ state'.score = 0
       /\ state'.lives = INITIAL_LIVES
       /\ state'.level = 1
       /\ state'.status = "PLAYING"
       /\ Len(state'.balls) = 1
       /\ state'.balls[1].dx = 0
       /\ state'.balls[1].dy = 0
       /\ state'.activeEffects = <<>>
       /\ state'.powerUps = <<>>
       /\ state'.paddle.width = Px(PADDLE_INITIAL_WIDTH)]_vars

\* a new game was started from GAME_OVER
C14_Witness ==
  /\ last.type = "START_LEVEL"
  /\ last.from = "GAME_OVER"
  /\ state.status = "PLAYING"
  /\ state.score = 0
  /\ state.lives = INITIAL_LIVES
  /\ state.level = 1


\* the status changes the state machine allows
StatusEdges ==
  {<<"MENU", "PLAYING">>, <<"PLAYING", "LEVEL_COMPLETE">>, <<"PLAYING", "GAME_OVER">>,
   <<"LEVEL_COMPLETE", "PLAYING">>, <<"GAME_OVER", "PLAYING">>}

\* C15: across any sequence of intents the status changes only along
\* MENU -> PLAYING, PLAYING -> LEVEL_COMPLETE, PLAYING -> GAME_OVER,
\* LEVEL_COMPLETE -> PLAYING and GAME_OVER -> PLAYING (so MENU is never
\* re-entered), and LEVEL_COMPLETE and GAME_OVER are left only by a
\* START_LEVEL.
C15_StatusMachine ==
  [][state'.status # state.status =>
       /\ <<state.status, state'.status>> \in StatusEdges
       /\ state.status \in {"LEVEL_COMPLETE", "GAME_OVER"} => last'.type = "START_LEVEL"]_vars


\* ------------------------------------------------------------------------
\* The paddle and the balls under power-ups: C16 in SpecPowerUps, C17 to
\* C19 in SpecRally
\* ------------------------------------------------------------------------
\* C16: after DEACTIVATE_POWERUP of EXPAND_PADDLE or of SHRINK_PADDLE the
\* paddle width is exactly the base width, whatever activations and
\* deactivations of the two came before.
C16_DeactivateRestoresBaseWidth ==
  (last.type = "DEACTIVATE_POWERUP" /\ last.kind \in {"EXPAND_PADDLE", "SHRINK_PADDLE"})
    => state.paddle.width = Px(PADDLE_INITIAL_WIDTH)

\* EXPAND_PADDLE expired after a SHRINK_PADDLE was collected on top of it
C16_Witness ==
  /\ last.type = "DEACTIVATE_POWERUP"
  /\ last.kind = "EXPAND_PADDLE"
  /\ ActiveTypes(state) = {"SHRINK_PADDLE"}
  /\ state.paddle.width = Px(PADDLE_INITIAL_WIDTH)


StuckBalls(s) == {i \in 1..Len(s.balls) : IsStuck(s.balls[i])}

\* C17: LAUNCH_BALL applied to a state in which no ball has velocity (0,0)
\* returns that state, paddle.hasGrab included, and touches no timer.
C17_LaunchWithoutStuckBallIsNoOp ==
  StuckBalls(state) = {} => LAUNCH_BALL(state, World) = [st |-> state, w |-> World]

\* a launch that found the only ball in flight and left the grab flag set
C17_Witness ==
  /\ last.type = "LAUNCH_BALL"
  /\ last.from = "PLAYING"
  /\ Len(state.balls) > 0
  /\ StuckBalls(state) = {}
  /\ state.paddle.hasGrab

\* C18: LAUNCH_BALL applied to a state with a stuck ball gives every stuck
\* ball the velocity (4 + level/2, -(4 + level/2)), which is (4.5, -4.5) at
\* level 1, keeps every ball in flight as it was, keeps the position of
\* every ball, and clears paddle.hasGrab.
C18_LaunchReleasesStuckBalls ==
  StuckBalls(state) # {} =>
    LET r == LAUNCH_BALL(state, World).st
    IN  /\ Len(r.balls) = Len(state.balls)
        /\ \A i \in StuckBalls(state) :
             /\ r.balls[i].dx = Px(4) + (Unit * state.level) \div 2
             /\ r.balls[i].dy = -(Px(4) + (Unit * state.level) \div 2)
             /\ state.level = 1 => (r.balls[i].dx = 4500 /\ r.balls[i].dy = -4500)
             /\ [r.balls[i] EXCEPT !.dx = 0, !.dy = 0] = state.balls[i]
        /\ \A i \in (1..Len(state.balls)) \ StuckBalls(state) : r.balls[i] = state.balls[i]
        /\ r.paddle = [state.paddle EXCEPT !.hasGrab = FALSE]
        /\ [r EXCEPT !.balls = state.balls, !.paddle = state.paddle] = state

\* the caught ball was released while the other ball was coming down
C18_Witness ==
  /\ last.type = "LAUNCH_BALL"
  /\ ~state.paddle.hasGrab
  /\ Len(state.balls) = 2
  /\ \E i, j \in 1..2 :
       /\ state.balls[i].y = Px(CANVAS_HEIGHT - PADDLE_Y_OFFSET - PADDLE_HEIGHT) - state.balls[i].radius
       /\ state.balls[i].dx = 4500
       /\ state.balls[i].dy = -4500
       /\ state.balls[j].dy > 0

\* the payloads of MOVE_PADDLE tried on every state: the ones the pointer
\* gives after clamping and two beyond the canvas
MoveXs(s) == PaddleXs \cup {ClampedX(s, relativeX) : relativeX \in MouseXs \cup RallyMouseXs}

\* C19: MOVE_PADDLE with payload x sets paddle.x to x and the x of every
\* stuck ball to x + paddle.width / 2; the balls in flight, the other
\* fields of the stuck balls, the paddle width and every other field of the
\* state (score, lives, level, status and bricks among them) stay as they
\* were, and no timer is touched.
C19_MovePaddleFrame ==
  \A x \in MoveXs(state) :
    LET r == MOVE_PADDLE(state, World, x)
    IN  /\ r.w = World
        /\ r.st.paddle = [state.paddle EXCEPT !.x = x]
        /\ Len(r.st.balls) = Len(state.balls)
        /\ \A i \in StuckBalls(state) :
             r.st.balls[i] = [state.balls[i] EXCEPT !.x = x + state.paddle.width \div 2]
        /\ \A i \in (1..Len(state.balls)) \ StuckBalls(state) :
             r.st.balls[i] = state.balls[i]
        /\ [r.st EXCEPT !.balls = state.balls, !.paddle = state.paddle] = state
        /\ r.st.score = state.score
        /\ r.st.lives = state.lives
        /\ r.st.level = state.level
        /\ r.st.status = state.status
        /\ r.st.bricks = state.bricks

\* the pointer moved after the catch: the caught ball sits over the middle
\* of the paddle while the other ball is in flight
C19_Witness ==
  /\ last.type = "MOVE_PADDLE"
  /\ state.paddle.x = last.x
  /\ Len(state.balls) = 2
  /\ \E i, j \in 1..2 :
       /\ IsStuck(state.balls[i])
       /\ state.balls[i].x = last.x + state.paddle.width \div 2
       /\ ~IsStuck(state.balls[j])

\* ------------------------------------------------------------------------
\* The frame, checked in SpecRally
\* ------------------------------------------------------------------------
\* the three events of a frame, read off the state the frame starts from
\* as UPDATE_GAME tests them
PowerUpCollected(s) == \E k \in 1..Len(s.powerUps) : Collects(s.paddle, s.powerUps[k])

BrickIsHit(s) ==
  \E i \in 1..Len(s.balls), k \in 1..Len(s.bricks) :
    /\ ~IsStuck(s.balls[i])
    /\ InBrick(s.bricks[k], s.balls[i].x + s.balls[i].dx, s.balls[i].y + s.balls[i].dy)

\* nextBalls stays empty: no ball is stuck and every ball leaves by the bottom
LifeIsLost(s) ==
  \A i \in 1..Len(s.balls) :
    /\ ~IsStuck(s.balls[i])
    /\ ~(s.balls[i].y + s.balls[i].dy + s.balls[i].radius < Px(CANVAS_HEIGHT))

\* C20: a frame in which no brick is hit, no power-up is collected and no
\* life is lost leaves score, lives and level as they were, whatever the
\* random draws of the frame.
C20_FrameConservation ==
  (~BrickIsHit(state) /\ ~PowerUpCollected(state) /\ ~LifeIsLost(state)) =>
    \A chance \in ChanceDraws :
      LET r == UPDATE_GAME(state, World, Env(now + 1, 0, chance, 0)).st
      IN  /\ r.score = state.score
          /\ r.lives = state.lives
          /\ r.level = state.level

\* the first frame after the launch: the ball has moved, nothing else
C20_Witness ==
  /\ last.type = "UPDATE_GAME"
  /\ now = 1
  /\ Len(state.balls) = 1
  /\ state.balls[1].dy = -BaseSpeed(1)
  /\ state.balls[1].y = Px(CANVAS_HEIGHT - PADDLE_Y_OFFSET - PADDLE_HEIGHT - BALL_RADIUS)
                          + state.balls[1].dy
  /\ state.score = 0
  /\ state.lives = INITIAL_LIVES
  /\ state.level = 1

\* ------------------------------------------------------------------------
\* The side walls, checked in SpecWalls
\* ------------------------------------------------------------------------
BetweenWalls(ball) ==
  /\ ball.x >= ball.radius
  /\ ball.x <= Px(CANVAS_WIDTH) - ball.radius

\* C21: a frame without a paddle or a brick collision (and in which the
\* balls are moved: no power-up is collected) that starts with every ball
\* between the side walls, its centre a radius away from each, ends with
\* every ball between them.
C21_BallsStayBetweenWalls ==
  ( /\ state.status = "PLAYING"
    /\ ~PowerUpCollected(state)
    /\ ~BrickIsHit(state)
    /\ \A i \in 1..Len(state.balls) :
         /\ BetweenWalls(state.balls[i])
         /\ ~HitsPaddle(state.paddle, state.balls[i]) )
  => LET r == UPDATE_GAME(state, World, Env(now + 1, 0, POWERUP_CHANCE, 0)).st
     IN  \A j \in 1..Len(r.balls) : BetweenWalls(r.balls[j])

\* ------------------------------------------------------------------------
\* Balls and lives in a frame, checked in SpecRally
\* ------------------------------------------------------------------------
\* C22: in every state a reducer call returned, status PLAYING comes with
\* at least one ball; a frame that leaves no surviving ball applies
\* LOSE_LIFE before it returns, which gives one stuck ball and a life less,
\* or GAME_OVER when the life lost was the last one.  The frame is tried
\* with every number of lives the state could carry.
C22_PlayingHasABall ==
  /\ state.status = "PLAYING" => Len(state.balls) > 0
  /\ \A lives \in 1..INITIAL_LIVES :
       LET s == [state EXCEPT !.lives = lives]
           r == UPDATE_GAME(s, World, Env(now + 1, 0, POWERUP_CHANCE, 0)).st
       IN  /\ r.status = "PLAYING" => Len(r.balls) > 0
           /\ (s.status = "PLAYING" /\ ~PowerUpCollected(s) /\ ~BrickIsHit(s) /\ LifeIsLost(s))
                => IF lives >= 2
                   THEN /\ r.status = "PLAYING"
                        /\ r.lives = lives - 1
                        /\ Len(r.balls) = 1
                        /\ IsStuck(r.balls[1])
                   ELSE /\ r.status = "GAME_OVER"
                        /\ r.lives = 0

\* the frame in which the last ball left by the bottom
C22_Witness ==
  /\ last.type = "UPDATE_GAME"
  /\ state.status = "PLAYING"
  /\ state.lives = INITIAL_LIVES - 1
  /\ Len(state.balls) = 1
  /\ IsStuck(state.balls[1])

\* ------------------------------------------------------------------------
\* Status and bricks, checked in SpecGame
\* ------------------------------------------------------------------------
LevelDone(s) == (s.status = "LEVEL_COMPLETE") <=> (ActiveBricks(s) = {})

EveryEffectHasExpiry ==
  state.status = "PLAYING" =>
    \A i \in 1..Len(state.activeEffects) :
      \E t \in Expiries(timers) :
        t.id = state.activeEffects[i].timeoutId /\ t.cb = state.activeEffects[i].type

\* C24: the expiry callback of a timed effect is due 10,000 ms after the
\* activation of the effect, whatever is collected and whatever else expires
\* in between: a callback pending for an effect stays pending, under the
\* handle it has, until it fires or the effect is removed.
C24_ExpiryDueFromActivation ==
  [][\A t \in Expiries(timers) :
       (t.id # last'.timer /\ t.cb \in ActiveTypes(state') /\ IsHandleOf(state, t.id, t.cb))
         => t \in timers']_vars

\* ------------------------------------------------------------------------
\* The frame that collects a power-up, checked in SpecPowerUps
\* ------------------------------------------------------------------------
\* the state after one more power-up, of type t, has come down into the
\* band of the paddle
WithDrop(s, t) ==
  LET pt == CHOOSE q \in SpawnPoints : TRUE
  IN  SPAWN_POWERUP(s, World, pt[1], pt[2], Env(now + 1, 0, 0, PickOf(t))).st

\* C25: a frame that starts with a falling power-up over the paddle
\* activates the first such power-up of state.powerUps, and only that one,
\* and returns: the bricks and the score are as before, no ball has moved
\* (a KILL_PADDLE puts LOSE_LIFE in the place of the activation), and the
\* other power-ups have fallen by one step.  Tried on every state with one
\* more power-up of every type over the paddle.
C25_CollectionEndsTheFrame ==
  state.status = "PLAYING" =>
    \A t \in PowerUpType :
      LET s == WithDrop(state, t)
          e == Env(now + 1, 0, POWERUP_CHANCE - 1, 0)
          over == {k \in 1..Len(s.powerUps) : Collects(s.paddle, s.powerUps[k])}
          first == s.powerUps[CHOOSE k \in over : \A j \in over : k <= j]
          r == UPDATE_GAME(s, World, e).st
      IN  over # {} =>
            /\ r.bricks = s.bricks
            /\ r.score = s.score
            /\ IF first.type = "KILL_PADDLE"
               THEN /\ r.lives = s.lives - 1
                    /\ r.activeEffects = <<>>
                    /\ r.powerUps = <<>>
                    /\ IF s.lives >= 2
                       THEN r.status = "PLAYING" /\ Len(r.balls) = 1 /\ IsStuck(r.balls[1])
                       ELSE r.status = "GAME_OVER"
               ELSE /\ r.lives = s.lives
                    /\ r.status = "PLAYING"
                    /\ Len(r.balls) = IF first.type = "SPLIT_BALL" THEN 2 * Len(s.balls)
                                      ELSE Len(s.balls)
                    /\ \A i \in 1..Len(s.balls) :
                         r.balls[i].x = s.balls[i].x /\ r.balls[i].y = s.balls[i].y
                    /\ r.powerUps = SelectSeq(UpdatePowerUps(s.powerUps),
                                              LAMBDA q : q.id # first.id)
                    /\ Len(r.activeEffects) =
                         Len(s.activeEffects) + (IF first.type \in TimedTypes THEN 1 ELSE 0)
                    /\ first.type \in TimedTypes =>
                         r.activeEffects[Len(r.activeEffects)].type = first.type
                    /\ r.paddle.hasGrab = (s.paddle.hasGrab \/ first.type = "GRAB_PADDLE")

\* the only frame so far collected a power-up and left the launched ball
\* where it was
C25_Witness ==
  /\ last.type = "UPDATE_GAME"
  /\ now = 1
  /\ state.powerUps = <<>>
  /\ Len(state.activeEffects) = 1
  /\ Len(state.balls) = 1
  /\ ~IsStuck(state.balls[1])
  /\ state.balls[1].x = Half(Px(CANVAS_WIDTH))
  /\ state.balls[1].y = Px(CANVAS_HEIGHT - PADDLE_Y_OFFSET - PADDLE_HEIGHT - BALL_RADIUS)

\* ------------------------------------------------------------------------
\* The frame that hits a brick, checked in SpecRally
\* ------------------------------------------------------------------------
\* a second ball on its way out by the bottom: the duplicate SPLIT_BALL
\* makes of the ball, one step above the bottom line and going down
FallingTwin(ball, level) ==
  [ball EXCEPT !.id = ball.id \o <<-1, 0>>,
               !.dx = -ball.dx,
               !.dy = BaseSpeed(level),
               !.y = Px(CANVAS_HEIGHT) - ball.radius]

\* the state, and the state with the falling twin in front of and behind
\* its balls
WithFallingBall(s) ==
  IF s.balls = <<>> THEN {s}
  ELSE LET twin == FallingTwin(s.balls[1], s.level)
       IN  {s, [s EXCEPT !.balls = <<twin>> \o s.balls],
               [s EXCEPT !.balls = Append(s.balls, twin)]}

\* C26: a frame in which a ball hits a brick (and no power-up is collected
\* first) leaves lives as they were and keeps every ball, each where it
\* was, also when another ball of the frame passes the bottom line.
C26_BrickHitFrameKeepsBalls ==
  \A s \in WithFallingBall(state) :
    (s.status = "PLAYING" /\ BrickIsHit(s) /\ ~PowerUpCollected(s)) =>
      \A chance \in ChanceDraws :
        LET r == UPDATE_GAME(s, World, Env(now + 1, 0, chance, 0)).st
        IN  /\ r.lives = s.lives
            /\ r.score > s.score
            /\ Len(r.balls) = Len(s.balls)
            /\ \A i \in 1..Len(s.balls) :
                 /\ r.balls[i].id = s.balls[i].id
                 /\ r.balls[i].x = s.balls[i].x
                 /\ r.balls[i].y = s.balls[i].y

\* the frame has just hit a brick: the brick is out, and the ball that
\* would have stepped into it is one step short of it, turned back
C26_Witness ==
  /\ last.type = "UPDATE_GAME"
  /\ state.status = "PLAYING"
  /\ state.score = BRICK_POINTS
  /\ \E i \in 1..Len(state.balls), k \in 1..Len(state.bricks) :
       LET ball == state.balls[i]
           brick == state.bricks[k]
       IN  /\ ~brick.active
           /\ ball.dy > 0
           /\ InBrick([brick EXCEPT !.active = TRUE], ball.x + ball.dx, ball.y - ball.dy)
           /\ ~InBrick([brick EXCEPT !.active = TRUE], ball.x, ball.y)

\* ------------------------------------------------------------------------
\* Lives and lost balls in a frame, checked in SpecRally
\* ------------------------------------------------------------------------
\* newBallY + ball.radius < CANVAS_HEIGHT fails: the ball is not pushed
CrossesBottom(ball) ==
  ~IsStuck(ball) /\ ~(ball.y + ball.dy + ball.radius < Px(CANVAS_HEIGHT))

KillCollected(s) ==
  LET over == {k \in 1..Len(s.powerUps) : Collects(s.paddle, s.powerUps[k])}
  IN  over # {} /\ s.powerUps[CHOOSE k \in over : \A j \in over : k <= j].type = "KILL_PADDLE"

SomeNotAllCross(s) ==
  /\ \E i \in 1..Len(s.balls) : CrossesBottom(s.balls[i])
  /\ \E i \in 1..Len(s.balls) : ~CrossesBottom(s.balls[i])

\* the frame took the balls that cross the bottom and only those, and kept
\* lives
LostBallsRemoved(s, r) ==
  /\ r.lives = s.lives
  /\ Len(r.balls) = Cardinality({i \in 1..Len(s.balls) : ~CrossesBottom(s.balls[i])})
  /\ \A j \in 1..Len(r.balls) :
       \E i \in 1..Len(s.balls) : s.balls[i].id = r.balls[j].id /\ ~CrossesBottom(s.balls[i])

\* a frame takes at most one life, and only for a collected KILL_PADDLE or
\* when no ball is left
LivesStep(s, r) ==
  /\ r.lives >= s.lives - 1
  /\ r.lives <= s.lives
  /\ r.lives < s.lives => (KillCollected(s) \/ (~PowerUpCollected(s) /\ ~BrickIsHit(s) /\ LifeIsLost(s)))

C28_LoseLifeWithLivesToSpare ==
  \A lives \in 2..INITIAL_LIVES :
    LET s == [state EXCEPT !.lives = lives]
        r == LOSE_LIFE(s, World, Env(now, 0, 0, 0)).st
    IN  /\ r.lives = lives - 1
        /\ r.status = "PLAYING"
        /\ Len(r.balls) = 1
        /\ r.balls[1].dx = 0 /\ r.balls[1].dy = 0
        /\ r.activeEffects = <<>>
        /\ r.powerUps = <<>>
        /\ r.particles = <<>>
        /\ r.paddle.width = Px(120)
        /\ r.paddle.hasGrab = FALSE
        /\ r.score = s.score
        /\ r.level = s.level
        /\ r.bricks = s.bricks

\* a frame collected KILL_PADDLE while an effect was active: its expiry was
\* cancelled, a life is gone and the state is the cleared one
C28_Witness ==
  /\ last.type = "UPDATE_GAME"
  /\ last.cancelled >= 1
  /\ state.status = "PLAYING"
  /\ state.lives = INITIAL_LIVES - 1
  /\ Len(state.balls) = 1 /\ IsStuck(state.balls[1])
  /\ state.activeEffects = <<>> /\ state.powerUps = <<>> /\ state.particles = <<>>
  /\ state.paddle.width = Px(PADDLE_INITIAL_WIDTH)

\* ------------------------------------------------------------------------
\* The ball speed after FAST_BALL or SLOW_BALL ends, checked in SpecPowerUps
\* ------------------------------------------------------------------------
SpeedTypes == {"FAST_BALL", "SLOW_BALL"}

\* every velocity component of every ball is 0 or the base speed of the level
AtBaseSpeed(s) ==
  \A i \in 1..Len(s.balls) :
    /\ s.balls[i].dx \in {-(Px(4) + s.level * Half(Unit)), 0, Px(4) + s.level * Half(Unit)}
    /\ s.balls[i].dy \in {-(Px(4) + s.level * Half(Unit)), 0, Px(4) + s.level * Half(Unit)}

\* C29: DEACTIVATE_POWERUP of FAST_BALL or of SLOW_BALL gives every ball
\* the velocity (sign(dx) * (4 + 0.5 * level), sign(dy) * (4 + 0.5 * level)),
\* the signs taken before the call, at every level: a ball at rest stays at
\* rest, and a further activation and deactivation of either type, from the
\* state so reached, ends at the same velocities.
C29_DeactivateRestoresBaseSpeed ==
  \A level \in 1..MaxLevels, t \in SpeedTypes :
    LET s == [state EXCEPT !.level = level]
        r == DEACTIVATE_POWERUP(s, World, t).st
    IN  /\ Len(r.balls) = Len(s.balls)
        /\ \A i \in 1..Len(s.balls) :
             /\ r.balls[i].dx = Sign(s.balls[i].dx) * (Px(4) + level * Half(Unit))
             /\ r.balls[i].dy = Sign(s.balls[i].dy) * (Px(4) + level * Half(Unit))
             /\ IsStuck(s.balls[i]) => IsStuck(r.balls[i])
        /\ \A t2 \in SpeedTypes :
             LET powerUp == WithDrop(r, t2).powerUps[Len(r.powerUps) + 1]
                 on == ACTIVATE_POWERUP(r, World, powerUp, Env(now, 0, 0, 0))
                 off == DEACTIVATE_POWERUP(on.st, on.w, t2).st
             IN  /\ AtBaseSpeed(off)
                 /\ \A i \in 1..Len(r.balls) :
                      off.balls[i].dx = r.balls[i].dx /\ off.balls[i].dy = r.balls[i].dy

\* FAST_BALL ended while SLOW_BALL was active: the ball in flight is back at
\* the base speed
C29_Witness ==
  /\ last.type = "DEACTIVATE_POWERUP"
  /\ last.kind = "FAST_BALL"
  /\ ActiveTypes(state) = {"SLOW_BALL"}
  /\ Len(state.balls) = 1
  /\ state.balls[1].dx = BaseSpeed(state.level)
  /\ state.balls[1].dy = -BaseSpeed(state.level)

\* ------------------------------------------------------------------------
\* SPLIT_BALL, checked in SpecRally
\* ------------------------------------------------------------------------
\* b is the duplicate SPLIT_BALL makes of a: a but for its id and the sign
\* of dx
IsSplitOf(b, a) ==
  /\ b.id # a.id
  /\ b.x = a.x /\ b.y = a.y
  /\ b.dy = a.dy
  /\ b.dx = -a.dx
  /\ b.radius = a.radius /\ b.isThru = a.isThru

\* after is before with one duplicate of each of its balls behind them
Doubled(before, after) ==
  LET n == Len(before.balls)
  IN  /\ Len(after.balls) = 2 * n
      /\ \A i \in 1..n : after.balls[i] = before.balls[i]
      /\ \A i \in 1..n : IsSplitOf(after.balls[n + i], before.balls[i])
      /\ after.activeEffects = before.activeEffects

\* C30: ACTIVATE_POWERUP of a SPLIT_BALL on n balls gives 2n balls, the n
\* as they were and behind them one duplicate of each at the same place
\* with the same dy and dx negated, and leaves activeEffects alone; a
\* second SPLIT_BALL doubles the 2n in the same way, duplicates included.
C30_SplitBallDoubles ==
  LET first == WithDrop(state, "SPLIT_BALL")
      one == ACTIVATE_POWERUP(first, World, first.powerUps[Len(first.powerUps)],
                              Env(now, 0, 0, 0))
      second == WithDrop(one.st, "SPLIT_BALL")
      two == ACTIVATE_POWERUP(second, one.w, second.powerUps[Len(second.powerUps)],
                              Env(now + 1, 0, 0, 0))
  IN  /\ Doubled(first, one.st)
      /\ Doubled(second, two.st)
      /\ Len(two.st.balls) = 4 * Len(state.balls)

\* the frame has just collected a SPLIT_BALL: two balls in flight at one
\* place, the second the mirror image of the first
C30_Witness ==
  /\ last.type = "UPDATE_GAME"
  /\ state.status = "PLAYING"
  /\ Len(state.balls) = 2
  /\ ~IsStuck(state.balls[1])
  /\ IsSplitOf(state.balls[2], state.balls[1])
  /\ state.balls[2].id = state.balls[1].id \o <<-1, now>>

\* ------------------------------------------------------------------------
\* The grab of the paddle, checked in SpecRally
\* ------------------------------------------------------------------------
\* the step from state to state' is one that may end the grab: a launch of
\* a stuck ball, a lost life (LOSE_LIFE inside the frame) or a START_LEVEL
EndsGrab ==
  \/ last'.type = "LAUNCH_BALL" /\ StuckBalls(state) # {}
  \/ last'.type = "UPDATE_GAME" /\ (state'.lives < state.lives \/ state'.status = "GAME_OVER")
  \/ last'.type = "START_LEVEL"

\* C31: ACTIVATE_POWERUP of a GRAB_PADDLE sets paddle.hasGrab and adds no
\* active effect, so GRAB_PADDLE is never among the active effects and no
\* expiry is ever registered for it; a DEACTIVATE_POWERUP of any timed type
\* leaves hasGrab as it is; hasGrab, once true, stays true over every frame
\* and every MOVE_PADDLE and becomes false only by a LAUNCH_BALL that
\* launches a stuck ball, a lost life or a START_LEVEL, each of which leaves
\* it false.
C31_GrabLastsUntilLaunch ==
  /\ [](LET s == WithDrop(state, "GRAB_PADDLE")
            r == ACTIVATE_POWERUP(s, World, s.powerUps[Len(s.powerUps)], Env(now, 0, 0, 0))
        IN  /\ r.st.paddle.hasGrab
            /\ r.st.activeEffects = s.activeEffects
            /\ r.w.timers = timers)
  /\ []("GRAB_PADDLE" \notin ActiveTypes(state))
  /\ [](\A t \in Expiries(timers) : t.cb # "GRAB_PADDLE")
  /\ [](\A t \in TimedTypes :
          DEACTIVATE_POWERUP(state, World, t).st.paddle.hasGrab = state.paddle.hasGrab)
  /\ [][(state.paddle.hasGrab /\ ~state'.paddle.hasGrab) => EndsGrab]_vars
  /\ [][(state.paddle.hasGrab /\ last'.type \in {"UPDATE_GAME", "MOVE_PADDLE"} /\ ~EndsGrab)
          => state'.paddle.hasGrab]_vars
  /\ [][EndsGrab => ~state'.paddle.hasGrab]_vars

\* a frame has put a ball on the grabbing paddle, long after the
\* GRAB_PADDLE was collected, and the grab is still on
C31_Witness ==
  /\ last.type = "UPDATE_GAME"
  /\ now > MaxDropTick + 100
  /\ state.paddle.hasGrab
  /\ state.activeEffects = <<>>
  /\ StuckBalls(state) # {}

\* ------------------------------------------------------------------------
\* The ball that hits a brick, checked in SpecThru
\* ------------------------------------------------------------------------
\* ball i of s steps into an active brick in the frame
HitsABrick(s, i) ==
  /\ ~IsStuck(s.balls[i])
  /\ \E k \in 1..Len(s.bricks) :
       InBrick(s.bricks[k], s.balls[i].x + s.balls[i].dx, s.balls[i].y + s.balls[i].dy)

\* the velocity BRICK_HIT leaves to the ball that hit
AfterHit(ball) == IF ball.isThru THEN ball.dy ELSE -ball.dy

\* C32: BRICK_HIT for an active brick and a ball of the state deactivates
\* the brick and adds 10 to the score; the dy of that ball is kept when the
\* ball has isThru and negated when it has not, its dx is kept, and the
\* velocity of every other ball is kept.  Tried with every ball of every
\* state; and in every frame that hits a brick, each ball that hits has its
\* dy kept or negated in that way and each other ball keeps its velocity.
C32_ThruBallKeepsItsCourse ==
  /\ [](\A brickId \in FirstActive(state.bricks), i \in 1..Len(state.balls),
          chance \in ChanceDraws :
          LET ball == state.balls[i]
              r == BRICK_HIT(state, World, brickId, ball.id, Env(now, 0, chance, 0)).st
          IN  /\ \A k \in 1..Len(r.bricks) : r.bricks[k].id = brickId => ~r.bricks[k].active
              /\ r.score = state.score + 10
              /\ Len(r.balls) = Len(state.balls)
              /\ r.balls[i].dy = AfterHit(ball)
              /\ r.balls[i].dx = ball.dx
              /\ \A j \in 1..Len(state.balls) :
                   j # i => /\ r.balls[j].dx = state.balls[j].dx
                            /\ r.balls[j].dy = state.balls[j].dy)
  /\ [][(last'.type = "UPDATE_GAME" /\ BrickIsHit(state) /\ ~PowerUpCollected(state)) =>
          /\ Len(state'.balls) = Len(state.balls)
          /\ state'.score = state.score
                              + 10 * Cardinality({i \in 1..Len(state.balls) : HitsABrick(state, i)})
          /\ \A i \in 1..Len(state.balls) :
               /\ state'.balls[i].dx = state.balls[i].dx
               /\ state'.balls[i].dy = IF HitsABrick(state, i)
                                       THEN AfterHit(state.balls[i])
                                       ELSE state.balls[i].dy]_vars

\* a frame has just sent a ball with isThru into a brick: the brick is out,
\* the score counts it, and the ball still goes up, one step short of it
C32_Witness ==
  /\ last.type = "UPDATE_GAME"
  /\ state.score >= 10
  /\ "THRU_BRICK" \in ActiveTypes(state)
  /\ \E i \in 1..Len(state.balls), k \in 1..Len(state.bricks) :
       LET ball == state.balls[i]
           brick == state.bricks[k]
       IN  /\ ball.isThru
           /\ ball.dy < 0
           /\ ~brick.active
           /\ InBrick([brick EXCEPT !.active = TRUE], ball.x + ball.dx, ball.y + ball.dy)
           /\ ~InBrick([brick EXCEPT !.active = TRUE], ball.x, ball.y)

\* ------------------------------------------------------------------------
\* The level builder, checked in SpecLevel
\* ------------------------------------------------------------------------
DigitChars == <<"0", "1", "2", "3", "4", "5", "6", "7", "8", "9">>

\* the decimal digits a template literal writes for n >= 0
RECURSIVE Digits(_)
Digits(n) ==
  IF n < 10 THEN <<DigitChars[n + 1]>>
  ELSE Digits(n \div 10) \o <<DigitChars[(n % 10) + 1]>>

\* `brick-${level}-${r}-${c}`
BrickIdText(id) ==
  <<"brick-">> \o Digits(id[1]) \o <<"-">> \o Digits(id[2]) \o <<"-">> \o Digits(id[3])

\* the grid is the one the claim describes for the level
IsLevelGrid(bricks, level) ==
  /\ Len(bricks) = 10 * (7 + (IF level - 1 < 3 THEN level - 1 ELSE 3))
  /\ \A k \in 1..Len(bricks) : bricks[k].active
  /\ Cardinality({BrickIdText(bricks[k].id) : k \in 1..Len(bricks)}) = Len(bricks)
  /\ \A k \in 1..Len(bricks) :
       bricks[k].color = BRICK_COLORS[((((k - 1) \div 10) + level) % 5) + 1]
  /\ level >= 4 => Len(bricks) = 100

BuilderLevels == 1..MaxBuildLevel

AllLevelGrids == \A level \in BuilderLevels : IsLevelGrid(createBricksForLevel(level), level)

\* C33: createBricksForLevel(level) is, for every level from 1 on, a list
\* of 10 * (7 + min(level - 1, 3)) bricks, all active, with ids that differ
\* pairwise as the strings the builder writes, the brick of row r in colour
\* (r + level) mod 5 of the palette; from level 4 on there are 100.  The
\* grid START_LEVEL installs, from any state, is that list for the level it
\* starts.
C33_LevelGrid ==
  /\ AllLevelGrids
  /\ LET r == START_LEVEL(state, World, Env(now, 0, 0, 0)).st
     IN  IsLevelGrid(r.bricks, r.level)
  /\ \A level \in BuilderLevels :
       LET r == START_LEVEL([state EXCEPT !.status = "LEVEL_COMPLETE", !.level = level - 1],
                            World, Env(now, 0, 0, 0)).st
       IN  r.level = level /\ Len(r.bricks) = Len(createBricksForLevel(level))

\* the first level was cleared and the second has just been started: eight
\* rows, all active
C33_Witness ==
  /\ last.type = "START_LEVEL"
  /\ last.from = "LEVEL_COMPLETE"
  /\ state.level = 2
  /\ Len(state.bricks) = 80
  /\ \A k \in 1..Len(state.bricks) : state.bricks[k].active
  /\ state.bricks[1].color = BRICK_COLORS[3]

\* ------------------------------------------------------------------------
\* The life of a particle, checked in SpecRally
\* ------------------------------------------------------------------------
\* the particles of before that a frame keeps, one frame older
Aged(particles) ==
  SelectSeq([i \in 1..Len(particles) |-> [particles[i] EXCEPT !.life = @ - 1]],
            LAMBDA q : q.life >= 1)

\* the frame from state to state' lost a life: LOSE_LIFE cleared the particles
FrameLosesLife == state'.lives < state.lives \/ state'.status = "GAME_OVER"

OneOfEach(s) ==
  DrawingIntents(s)
  \cup {Action("LAUNCH_BALL", 0, 0, <<>>, <<>>, "", <<>>, <<>>),
        Action("MOVE_PADDLE", Px(100), 0, <<>>, <<>>, "", <<>>, <<>>)}
  \cup {Action("DEACTIVATE_POWERUP", 0, 0, <<>>, <<>>, t, <<>>, <<>>) : t \in TimedTypes}

ThruMatchesEffect(s) ==
  \A i \in 1..Len(s.balls) : s.balls[i].isThru = ("THRU_BRICK" \in ActiveTypes(s))

\* the state with its balls at rest on the paddle, as a grab leaves them
Caught(s) ==
  [s EXCEPT !.balls = [i \in 1..Len(s.balls) |-> [s.balls[i] EXCEPT !.dx = 0, !.dy = 0]]]

\* the activations of one power-up of each type that has come down to the
\* paddle
Activations(s) ==
  {LET d == WithDrop(s, t)
   IN  ACTIVATE_POWERUP(d, World, d.powerUps[Len(d.powerUps)], Env(now, 0, 0, 0)).st :
     t \in PowerUpType}

\* C36: in every state each ball has isThru exactly when THRU_BRICK is
\* among the active effects; and so it is after any intent the reducer is
\* given in the state, after the activation of a power-up of any type (the
\* duplicates of SPLIT_BALL take the isThru of their originals), and after
\* the launch of balls caught on the paddle.
C36_ThruOnlyWithEffect ==
  /\ ThruMatchesEffect(state)
  /\ \A a \in OneOfEach(state) :
       ThruMatchesEffect(gameReducer(state, World, a, Env(now, 0, POWERUP_CHANCE, 0)).st)
  /\ \A r \in Activations(state) : ThruMatchesEffect(r)
  /\ LET r == LAUNCH_BALL(Caught(state), World).st
     IN  /\ ThruMatchesEffect(r)
         /\ \A i \in 1..Len(r.balls) : r.balls[i].isThru = state.balls[i].isThru

\* a SPLIT_BALL was collected while THRU_BRICK was active: two balls in
\* flight, both with isThru
C36_Witness ==
  /\ last.type = "UPDATE_GAME"
  /\ "THRU_BRICK" \in ActiveTypes(state)
  /\ Len(state.balls) = 2
  /\ state.balls[1].isThru /\ state.balls[2].isThru
  /\ ~IsStuck(state.balls[1]) /\ ~IsStuck(state.balls[2])
  /\ Len(state.balls[2].id) > Len(state.balls[1].id)

====
